---- MODULE Spec2Model ----
(***************************************************************************)
(* Thread Topology integration: the topology builder                       *)
(* (ThreadTopologyCoordinator._process_topology) and the router identity   *)
(* resolver (ThreadTopologyCoordinator._identify_router) of                *)
(* custom_components/thread_topology/coordinator.py.                       *)
(*                                                                         *)
(* Python values are modelled as follows.                                  *)
(*   str used as an address  a sequence of one-character strings, so that  *)
(*                           upper(), slicing and "in" are computed        *)
(*   other str               a TLA+ string                                 *)
(*   dict from JSON          a function whose DOMAIN is the set of keys    *)
(*                           that are present; d.get(k, default) is Get    *)
(*   list                    a sequence                                    *)
(*   None                    the string "None"                             *)
(*   a display name          a sequence of parts: <<base>>, or             *)
(*                           <<base, " #", n>> for f"{base} #{n}"          *)
(***************************************************************************)
EXTENDS Integers, Sequences, FiniteSets, TLC

VARIABLES
    \* --- one call of _process_topology ---
    node_data,           \* argument: the node summary
    diagnostics_data,    \* argument: the list of diagnostic records
    matter_devices,      \* argument: the paired devices
    thread_routers,      \* argument: the border routers of the device registry
    pc,                  \* position in _process_topology
    leader_ext_address,  \* local (line 285)
    network_name,        \* local (line 286)
    num_routers,         \* local (line 287)
    state,               \* local (line 288)
    thread_matter,       \* local (line 291)
    wifi_matter,         \* local (line 292)
    nodes,               \* local (line 295): ext_address -> node
    thread_device_idx,   \* local (line 296): cursor into thread_matter
    router_index,        \* local (line 297)
    diag_pos,            \* number of records the for loop of line 299 has consumed
    topology,            \* the returned dict, NoTopology before the return
    attached,            \* history: per consumed record, per child, the position of
                         \* thread_matter attached to it (0: none)
    resolved,            \* history: per consumed record, the arguments of the call of
                         \* _identify_router at line 316
    \* --- one call of _identify_router ---
    id_call,             \* the arguments [ext_address, is_leader, router_index]
    id_result,           \* the returned identity, NoIdentity before the return
    \* --- the coordinator object and its refresh cycles ---
    scan_interval,       \* the scan_interval argument of __init__: <<>> when omitted, else <<n>>
    update_interval,     \* seconds of self.update_interval
    _session,            \* self._session: 0 is None, k the k-th ClientSession created
    _router_index,       \* self._router_index
    closed,              \* per ClientSession created, the number of close() calls on it
    cycles,              \* number of calls of _async_update_data so far
    requests,            \* endpoints requested by the current or last cycle, in order
    raised,              \* <<exception, endpoint>> when a fetch of that cycle raised, else <<>>
    cycle_result,        \* how that cycle ended: "none", "pending", "returned", or the
                         \* exception it raised
    svg_path,            \* what save_svg_to_www returned in that cycle, "not_called" otherwise
    svg_error,           \* history: rendering or writing the image failed in that cycle
    id_again,            \* the identity returned by a repeated call with id_call's arguments
    id_cycle,            \* history: the value of cycles at the call that gave id_result
    \* --- the config entry and what Home Assistant holds for it ---
    phase,               \* "not_loaded", "first_refresh" (async_setup_entry awaits line 25)
                         \* or "loaded"
    registered,          \* hass.data[DOMAIN][entry_id] holds the coordinator
    data,                \* coordinator.data: the last topology a refresh returned
    node_sensors,        \* the ext_address of every ThreadNodeSensor of the entry
    setups,              \* number of calls of async_setup_entry so far
    handled,             \* number of cycles whose outcome the refresh has taken in
    \* --- the config flow ---
    entries,             \* the config entries of the domain, in order of creation
    flow_input,          \* the last submission: user input, request, response, and the
                         \* unique ids configured when it was made
    flow_result,         \* what the last call of async_step_user ended in
    submissions          \* number of submissions so far

build_vars == <<node_data, diagnostics_data, matter_devices, thread_routers, pc, leader_ext_address,
                network_name, num_routers, state, thread_matter, wifi_matter, nodes,
                thread_device_idx, router_index, diag_pos, topology, attached, resolved>>
id_vars == <<id_call, id_result>>
cycle_vars == <<scan_interval, update_interval, _session, _router_index, closed, cycles,
                requests, raised, cycle_result, svg_path, svg_error, id_again, id_cycle>>
entry_vars == <<phase, registered, data, node_sensors, setups, handled>>
flow_vars == <<entries, flow_input, flow_result, submissions>>
vars == <<build_vars, id_vars, cycle_vars, entry_vars, flow_vars>>

----------------------------------------------------------------------------
(* Bounds of the model *)

\* longest diagnostics list
MaxDiags == 2
\* longest paired-device list
MaxDevices == 3
\* largest router_index passed to a direct call of _identify_router
MaxRouterIndex == 6
MaxCycles == 3
MaxSetups == 2
MaxSubmissions == 3

----------------------------------------------------------------------------
(* Python helpers *)

\* {} : the dict without keys
EmptyObj == [k \in {} |-> 0]

\* d.get(k, default)
Get(d, k, default) == IF k \in DOMAIN d THEN d[k] ELSE default

\* the empty str, as an address
EmptyStr == <<>>

LowerLetters ==
    <<"a","b","c","d","e","f","g","h","i","j","k","l","m",
      "n","o","p","q","r","s","t","u","v","w","x","y","z">>
UpperLetters ==
    <<"A","B","C","D","E","F","G","H","I","J","K","L","M",
      "N","O","P","Q","R","S","T","U","V","W","X","Y","Z">>

\* str.upper() of one character
UpperChar(c) ==
    IF \E k \in 1..Len(LowerLetters) : LowerLetters[k] = c
    THEN UpperLetters[CHOOSE k \in 1..Len(LowerLetters) : LowerLetters[k] = c]
    ELSE c

\* s.upper()
Upper(s) == [k \in 1..Len(s) |-> UpperChar(s[k])]

\* s[lo:hi] for 0 <= lo <= hi <= len(s)
Slice(s, lo, hi) == SubSeq(s, lo + 1, hi)

\* p in s, for str p and s
Contains(s, p) ==
    \E k \in 0..(Len(s) - Len(p)) : SubSeq(s, k + 1, k + Len(p)) = p

\* f"{a}:{b}:{c}"
ColonJoin(a, b, c) == a \o <<":">> \o b \o <<":">> \o c

\* sum(f[x] for x in S)
RECURSIVE SumOver(_, _)
SumOver(f, S) ==
    IF S = {} THEN 0
    ELSE LET x == CHOOSE y \in S : TRUE IN f[x] + SumOver(f, S \ {x})

\* all sequences over S of length at most n
RECURSIVE SeqsUpTo(_, _)
SeqsUpTo(S, n) ==
    IF n = 0 THEN {<<>>}
    ELSE LET shorter == SeqsUpTo(S, n - 1)
         IN  shorter \cup {Append(s, x) : s \in shorter, x \in S}

\* all sequences without repetition over S of length at most n
RECURSIVE DistinctSeqsUpTo(_, _)
DistinctSeqsUpTo(S, n) ==
    IF n = 0 THEN {<<>>}
    ELSE LET shorter == DistinctSeqsUpTo(S, n - 1)
         IN  shorter \cup
             UNION {{Append(s, x) : x \in S \ {s[k] : k \in 1..Len(s)}} : s \in shorter}

----------------------------------------------------------------------------
(* Router identity resolver *)

Oui(a, b, c, d, e, f) == <<a, b, ":", c, d, ":", e, f>>
OuiEntry(key, name, manufacturer, icon) ==
    [oui |-> key, name |-> name, manufacturer |-> manufacturer, icon |-> icon]

KNOWN_BORDER_ROUTER_OUIS == {
    OuiEntry(Oui("2","8","6","D","9","7"), "Apple HomePod", "Apple", "homepod"),
    OuiEntry(Oui("3","C","2","2","F","B"), "Apple HomePod", "Apple", "homepod"),
    OuiEntry(Oui("3","8","C","9","8","6"), "Apple TV", "Apple", "appletv"),
    OuiEntry(Oui("D","0","0","3","4","B"), "Apple HomePod", "Apple", "homepod"),
    OuiEntry(Oui("F","0","B","3","E","C"), "Apple HomePod Mini", "Apple", "homepod"),
    OuiEntry(Oui("6","4","B","5","C","6"), "Apple Device", "Apple", "apple"),
    OuiEntry(Oui("1","8","D","6","C","7"), "Google Nest Hub", "Google", "nest"),
    OuiEntry(Oui("1","C","F","2","9","A"), "Google Nest", "Google", "nest"),
    OuiEntry(Oui("2","0","D","F","B","9"), "Google Nest WiFi", "Google", "nest"),
    OuiEntry(Oui("4","8","D","6","D","5"), "Google Nest Hub Max", "Google", "nest"),
    OuiEntry(Oui("5","4","6","0","0","9"), "Google Nest", "Google", "nest"),
    OuiEntry(Oui("F","4","F","5","D","8"), "Google Nest", "Google", "nest"),
    OuiEntry(Oui("F","4","F","5","E","8"), "Google Nest Mini", "Google", "nest"),
    OuiEntry(Oui("5","0","E","C","5","0"), "Eero Pro", "Amazon/Eero", "eero"),
    OuiEntry(Oui("6","8","2","A","2","B"), "Eero Pro 6", "Amazon/Eero", "eero"),
    OuiEntry(Oui("7","0","3","A","C","B"), "Eero", "Amazon/Eero", "eero"),
    OuiEntry(Oui("F","0","8","1","7","5"), "Eero Pro 6E", "Amazon/Eero", "eero"),
    OuiEntry(Oui("2","4","F","C","E","5"), "SmartThings Hub", "Samsung", "smartthings"),
    OuiEntry(Oui("2","8","6","D","C","D"), "SmartThings Station", "Samsung", "smartthings"),
    OuiEntry(Oui("D","0","5","2","A","8"), "SmartThings Hub", "Samsung", "smartthings"),
    OuiEntry(Oui("0","0","5","5","D","A"), "Nanoleaf Controller", "Nanoleaf", "nanoleaf"),
    OuiEntry(Oui("0","4","C","D","1","5"), "Silicon Labs Device", "Silicon Labs", "chip"),
    OuiEntry(Oui("5","8","8","E","8","1"), "Silicon Labs Device", "Silicon Labs", "chip"),
    OuiEntry(Oui("8","4","2","E","1","4"), "Silicon Labs Device", "Silicon Labs", "chip"),
    OuiEntry(Oui("F","8","F","0","0","5"), "Nordic Device", "Nordic Semiconductor", "chip"),
    OuiEntry(Oui("3","4","8","5","1","8"), "ESP32 Thread", "Espressif", "chip"),
    OuiEntry(Oui("4","0","2","2","D","8"), "ESP32 Thread", "Espressif", "chip") }

\* oui in KNOWN_BORDER_ROUTER_OUIS
OuiKnown(oui) == \E e \in KNOWN_BORDER_ROUTER_OUIS : e.oui = oui
\* KNOWN_BORDER_ROUTER_OUIS[oui]
OuiInfo(oui) == CHOOSE e \in KNOWN_BORDER_ROUTER_OUIS : e.oui = oui

BORDER_ROUTER_PATTERNS == <<
    [pattern |-> <<"E","A","1","7">>, name |-> "Eero", manufacturer |-> "Amazon/Eero"],
    [pattern |-> <<"E","A">>, name |-> "Eero", manufacturer |-> "Amazon/Eero"] >>

router_names == <<
    [name |-> "Eero", manufacturer |-> "Amazon/Eero"],
    [name |-> "Google Nest", manufacturer |-> "Google"],
    [name |-> "Apple HomePod", manufacturer |-> "Apple"],
    [name |-> "SmartThings", manufacturer |-> "Samsung"],
    [name |-> "Thread Router", manufacturer |-> "Unknown"] >>

Identity(name, manufacturer, icon) ==
    [name |-> name, manufacturer |-> manufacturer, type |-> "border_router", icon |-> icon]

\* the dict returned when is_leader (lines 204-210)
LeaderIdentity == Identity(<<"SkyConnect (OTBR)">>, "Nabu Casa", "home-assistant")

\* the two formats with the trailing one tried first
OuiFormatsTrailingFirst(ext_upper) ==
    LET n == Len(ext_upper)
    IN  << ColonJoin(Slice(ext_upper, n - 6, n - 4), Slice(ext_upper, n - 4, n - 2),
                     Slice(ext_upper, n - 2, n)),
           ColonJoin(Slice(ext_upper, 0, 2), Slice(ext_upper, 2, 4), Slice(ext_upper, 4, 6)) >>

\* oui_formats (lines 216-219), for len(ext_upper) >= 6
OuiFormats(ext_upper) ==
    LET n == Len(ext_upper)
    IN  << ColonJoin(Slice(ext_upper, 0, 2), Slice(ext_upper, 2, 4), Slice(ext_upper, 4, 6)),
           ColonJoin(Slice(ext_upper, n - 6, n - 4), Slice(ext_upper, n - 4, n - 2),
                     Slice(ext_upper, n - 2, n)) >>

\* the for loop of lines 221-229: TRUE iff it returns
OuiHit(ext_upper) ==
    /\ Len(ext_upper) >= 6
    /\ \E k \in 1..2 : OuiKnown(OuiFormats(ext_upper)[k])

OuiIdentity(ext_upper) ==
    LET formats == OuiFormats(ext_upper)
        k == CHOOSE j \in 1..2 :
                 /\ OuiKnown(formats[j])
                 /\ \A h \in 1..(j - 1) : ~OuiKnown(formats[h])
        info == OuiInfo(formats[k])
    IN  Identity(<<info.name>>, info.manufacturer, info.icon)

\* the for loop of lines 232-239: TRUE iff it returns
PatternHit(ext_upper) ==
    \E k \in 1..Len(BORDER_ROUTER_PATTERNS) :
        Contains(ext_upper, BORDER_ROUTER_PATTERNS[k].pattern)

PatternIdentity(ext_upper) ==
    LET k == CHOOSE j \in 1..Len(BORDER_ROUTER_PATTERNS) :
                 /\ Contains(ext_upper, BORDER_ROUTER_PATTERNS[j].pattern)
                 /\ \A h \in 1..(j - 1) :
                        ~Contains(ext_upper, BORDER_ROUTER_PATTERNS[h].pattern)
    IN  Identity(<<BORDER_ROUTER_PATTERNS[k].name>>,
                 BORDER_ROUTER_PATTERNS[k].manufacturer, "router")

\* a numbering that appends the index itself
GenericIdentitySuffixIndex(idx) ==
    LET pick == router_names[(idx % Len(router_names)) + 1]
        name == IF idx > 0 THEN <<pick.name, " #", idx>> ELSE <<pick.name>>
    IN  Identity(name, pick.manufacturer, "router")

\* lines 241-260
GenericIdentity(idx) ==
    LET pick == router_names[(idx % Len(router_names)) + 1]
        name == IF idx > 0 THEN <<pick.name, " #", idx + 1>> ELSE <<pick.name>>
    IN  Identity(name, pick.manufacturer, "router")

\* rules that search the patterns in the address as given, not uppercased
AddressIdentityRawPattern(ext_address, idx) ==
    LET ext_upper == Upper(ext_address)
    IN  IF OuiHit(ext_upper) THEN OuiIdentity(ext_upper)
        ELSE IF PatternHit(ext_address) THEN PatternIdentity(ext_address)
        ELSE GenericIdentity(idx)

\* lines 212-260: the rules that look at the address
AddressIdentity(ext_address, idx) ==
    LET ext_upper == Upper(ext_address)
    IN  IF OuiHit(ext_upper) THEN OuiIdentity(ext_upper)
        ELSE IF PatternHit(ext_upper) THEN PatternIdentity(ext_upper)
        ELSE GenericIdentity(idx)

\* a resolver that consults the address before the leader flag
IdentifyRouterAddressFirst(ext_address, is_leader, idx) ==
    LET ext_upper == Upper(ext_address)
    IN  IF OuiHit(ext_upper) THEN OuiIdentity(ext_upper)
        ELSE IF is_leader THEN LeaderIdentity
        ELSE AddressIdentity(ext_address, idx)

\* a resolver that numbers the generic routers on from the refresh cycles so far
IdentifyRouterHiddenCounter(ext_address, is_leader, idx) ==
    IF is_leader THEN LeaderIdentity ELSE AddressIdentity(ext_address, idx + cycles)

\* lines 199-260: the leader rule, then the rules that look at the address; the
\* body reads its three parameters and the two module-level tables only
_identify_router(ext_address, is_leader, idx) ==
    IF is_leader THEN LeaderIdentity ELSE AddressIdentity(ext_address, idx)

----------------------------------------------------------------------------
(* Inputs *)

AddrSky == <<"1","E","A","5","3","1","2","C","F","B","1","5","3","F","0","B">>
AddrEero == <<"9","6","3","0","8","C","2","5","7","7","D","6","E","A","1","7">>
AddrPlain == <<"A","4","B","3","C","2","D","1","E","0","F","0","9","8","7","6">>
AddrApple == <<"2","8","6","D","9","7","A","A","B","B","C","C","D","D","0","1">>
AddrAppleLower == <<"2","8","6","d","9","7","a","a","b","b","c","c","d","d","0","1">>
AddrNestTail == <<"0","0","1","1","2","2","3","3","4","4","F","4","F","5","D","8">>
AddrBoth == <<"2","8","6","D","9","7","0","0","A","A","F","4","F","5","D","8">>
AddrEeroTable == <<"7","0","3","A","C","B","0","0","E","A","1","7","0","0","0","0">>
AddrAny == <<"A","N","Y","A","D","D","R","E","S","S">>
AddrShort == <<"1","2">>
AddrShortEA == <<"E","A">>
AddrLowerEA == <<"9","9","e","a","1","7","0","0">>

\* addresses passed to a direct call of _identify_router
AddrPool ==
    { AddrSky, AddrEero, AddrPlain, AddrApple, AddrAppleLower, AddrNestTail, AddrBoth,
      AddrEeroTable, AddrAny, AddrShort, AddrShortEA, AddrLowerEA, EmptyStr }

\* node summaries
NodeFull ==
    [ExtAddress |-> AddrSky, NetworkName |-> "MyHome1038137341", NumOfRouter |-> 3,
     State |-> "leader", Rloc16 |-> 55296]
NodeApple == [ExtAddress |-> AddrApple, NumOfRouter |-> 1]
NodePool == { NodeFull, NodeApple, EmptyObj }

\* child entries
ChildSleepy(id) ==
    [ChildId |-> id, Timeout |-> 12, Mode |-> [RxOnWhenIdle |-> 0, DeviceType |-> 0]]
ChildActive(id) ==
    [ChildId |-> id, Timeout |-> 240, Mode |-> [RxOnWhenIdle |-> 1, DeviceType |-> 0]]
ChildNoRx == [ChildId |-> 3, Mode |-> EmptyObj]

\* route entries
RouteEntry(id, lq_in, lq_out, cost) ==
    [RouteId |-> id, LinkQualityIn |-> lq_in, LinkQualityOut |-> lq_out, RouteCost |-> cost]

\* diagnostic records
DiagEero ==
    [ExtAddress |-> AddrEero, Rloc16 |-> 8192,
     Mode |-> [RxOnWhenIdle |-> 1, DeviceType |-> 1],
     Connectivity |-> [LinkQuality3 |-> 1, LinkQuality2 |-> 0, LinkQuality1 |-> 0,
                       LeaderCost |-> 1],
     ChildTable |-> <<ChildSleepy(24)>>,
     \* router 8 is this record's own router (Rloc16 = 8 * 1024)
     Route |-> [RouteData |-> <<RouteEntry(8, 0, 0, 1), RouteEntry(54, 3, 3, 1)>>],
     IP6AddressList |-> <<"fd2a:398d:f276:6b9c:0:ff:fe00:2000">>]
DiagSky ==
    [ExtAddress |-> AddrSky, Rloc16 |-> 55296,
     Mode |-> [RxOnWhenIdle |-> 1, DeviceType |-> 1],
     Connectivity |-> [LinkQuality3 |-> 1, LinkQuality2 |-> 1, LinkQuality1 |-> 1,
                       LeaderCost |-> 0],
     ChildTable |-> <<ChildSleepy(9)>>,
     Route |-> [RouteData |-> <<RouteEntry(8, 3, 3, 1), RouteEntry(54, 0, 0, 255)>>],
     IP6AddressList |-> <<"fd2a:398d:f276:6b9c:0:ff:fe00:d800">>]
DiagPlain ==
    [ExtAddress |-> AddrPlain, Rloc16 |-> 16384,
     Mode |-> [RxOnWhenIdle |-> 1, DeviceType |-> 1],
     Connectivity |-> [LinkQuality3 |-> 2, LinkQuality2 |-> 3, LinkQuality1 |-> 4,
                       LeaderCost |-> 1],
     ChildTable |-> <<ChildSleepy(5), ChildActive(8)>>]
\* the leader's address on a record that is not router-capable
DiagSkyLeaf ==
    [ExtAddress |-> AddrSky, Rloc16 |-> 1024,
     Mode |-> [RxOnWhenIdle |-> 0, DeviceType |-> 0],
     Connectivity |-> [LinkQuality3 |-> 0, LinkQuality2 |-> 2, LinkQuality1 |-> 1],
     Route |-> [RouteData |-> <<RouteEntry(54, 2, 1, 254), RouteEntry(8, 1, 1, 255),
                               [RouteId |-> 16, LinkQualityIn |-> 3],
                               [RouteCost |-> 0]>>]]
DiagApple ==
    [ExtAddress |-> AddrApple, Rloc16 |-> 2048,
     Mode |-> EmptyObj,
     Connectivity |-> [LinkQuality1 |-> 3],
     ChildTable |-> <<>>,
     Route |-> EmptyObj]
DiagAppleRouter ==
    [ExtAddress |-> AddrApple,
     Mode |-> [DeviceType |-> 1],
     Connectivity |-> [LinkQuality2 |-> 5, LinkQuality1 |-> 0, LeaderCost |-> 2],
     ChildTable |-> <<ChildActive(1)>>,
     Route |-> [RouteData |-> <<RouteEntry(54, 3, 2, 255), RouteEntry(8, 0, 3, 254)>>]]
\* the address of DiagPlain again, with another child table and no Mode
DiagPlainLeaf ==
    [ExtAddress |-> AddrPlain, Rloc16 |-> 4096,
     Connectivity |-> [LinkQuality3 |-> 0, LinkQuality2 |-> 0, LinkQuality1 |-> 0],
     ChildTable |-> <<ChildNoRx, EmptyObj, ChildSleepy(7)>>,
     Route |-> [RouteData |-> <<>>]]
DiagPool ==
    { DiagEero, DiagSky, DiagPlain, DiagSkyLeaf, DiagApple, DiagAppleRouter,
      DiagPlainLeaf, EmptyObj }

\* paired devices, as _get_matter_devices returns them: each device of the
\* registry at most once, with transport thread or wifi
DevMeross ==
    [name |-> "Meross MS605", model |-> "Smart Presence Sensor",
     manufacturer |-> "Meross", transport |-> "thread"]
DevAqara ==
    [name |-> "Aqara Door Sensor P2", model |-> "None",
     manufacturer |-> "Aqara", transport |-> "thread"]
DevNuki ==
    [name |-> "Nuki Smart Lock", model |-> "Smart Lock",
     manufacturer |-> "Nuki", transport |-> "wifi"]
DevicePool == { DevMeross, DevAqara, DevNuki }

\* border routers, as _get_thread_border_routers returns them
RouterListPool ==
    { <<[name |-> "Kitchen HomePod", manufacturer |-> "Apple", model |-> "HomePod Mini"]>> }

----------------------------------------------------------------------------
(* Topology builder: the steps of one diagnostic record *)

\* a read of the hardware address that defaults to a placeholder
ExtAddressOfPlaceholder(diag) == Get(diag, "ExtAddress", <<"?">>)

\* line 300
ExtAddressOf(diag) == Get(diag, "ExtAddress", EmptyStr)

\* a test that takes a missing DeviceType for a router
IsRouterDefaultOne(diag) == Get(Get(diag, "Mode", EmptyObj), "DeviceType", 1) = 1

\* line 305
IsRouter(diag) == Get(Get(diag, "Mode", EmptyObj), "DeviceType", 0) = 1

\* line 306
IsLeader(diag, leader) == ExtAddressOf(diag) = leader

\* a classification that tests the device type before the leader address
RoleDeviceTypeFirst(is_leader, is_router) ==
    IF is_router THEN "router" ELSE IF is_leader THEN "leader" ELSE "end_device"

\* lines 308-313
Role(is_leader, is_router) ==
    IF is_leader THEN "leader" ELSE IF is_router THEN "router" ELSE "end_device"

\* a counter that every record advances
NextRouterIndexEveryRecord(role, idx) == idx + 1

\* lines 317-318
NextRouterIndex(role, idx) == IF role \in {"leader", "router"} THEN idx + 1 ELSE idx

\* a reduction that adds the three counters
LinkQualitySum(connectivity) ==
    Get(connectivity, "LinkQuality3", 0) + Get(connectivity, "LinkQuality2", 0)
        + Get(connectivity, "LinkQuality1", 0)

\* lines 325-336
LinkQuality(connectivity) ==
    LET lq3 == Get(connectivity, "LinkQuality3", 0)
        lq2 == Get(connectivity, "LinkQuality2", 0)
        lq1 == Get(connectivity, "LinkQuality1", 0)
    IN  IF lq3 > 0 THEN 3 ELSE IF lq2 > 0 THEN 2 ELSE IF lq1 > 0 THEN 1 ELSE 0

\* a test that takes a child without the flag for a sleepy one
ChildTypeDefaultSleepy(child) ==
    IF Get(Get(child, "Mode", EmptyObj), "RxOnWhenIdle", 0) = 0 THEN "sleepy" ELSE "active"

\* a test that takes the receiver-on children for the sleepy ones
ChildTypeInverted(child) ==
    IF Get(Get(child, "Mode", EmptyObj), "RxOnWhenIdle", 1) = 0 THEN "active" ELSE "sleepy"

\* line 344
ChildType(child) ==
    IF Get(Get(child, "Mode", EmptyObj), "RxOnWhenIdle", 1) = 0 THEN "sleepy" ELSE "active"

\* a match that starts over when the pool is used up
MatchPosWrapping(idx, pool) ==
    IF Len(pool) > 0 THEN (idx % Len(pool)) + 1 ELSE 0

\* lines 347-349: the position in the pool of thread_matter[idx], 0 for None
MatchPos(idx, pool) == IF idx < Len(pool) THEN idx + 1 ELSE 0

\* a cursor that is never advanced
NextDeviceIdxStuck(idx, pool) == idx

\* lines 348-350: the cursor after the match
NextDeviceIdx(idx, pool) == IF idx < Len(pool) THEN idx + 1 ELSE idx

\* lines 352-362
ChildInfo(child, rloc16, pool, pos) ==
    LET child_id == Get(child, "ChildId", 0)
        child_info ==
            [id |-> child_id, type |-> ChildType(child),
             timeout |-> Get(child, "Timeout", 0), rloc16 |-> rloc16 + child_id]
    IN  IF pos > 0
        THEN child_info @@ [name |-> pool[pos].name,
                            manufacturer |-> pool[pos].manufacturer,
                            model |-> pool[pos].model]
        ELSE child_info

\* the for loop of lines 341-364: the children, the cursor after the loop, and
\* the pool position given to each child
RECURSIVE ChildLoop(_, _, _, _)
ChildLoop(child_table, rloc16, pool, idx) ==
    IF child_table = <<>>
    THEN [children |-> <<>>, idx |-> idx, picks |-> <<>>]
    ELSE LET pos  == MatchPos(idx, pool)
             rest == ChildLoop(Tail(child_table), rloc16, pool, NextDeviceIdx(idx, pool))
         IN  [children |-> <<ChildInfo(Head(child_table), rloc16, pool, pos)>>
                               \o rest.children,
              idx |-> rest.idx,
              picks |-> <<pos>> \o rest.picks]

\* a filter that also keeps the unreachable cost
RouteKeptInclusive(rd) == Get(rd, "RouteCost", 255) <= 255

\* line 371
RouteKept(rd) == Get(rd, "RouteCost", 255) < 255

\* lines 372-377
Connection(rd) ==
    [router_id |-> Get(rd, "RouteId", 0), lq_out |-> Get(rd, "LinkQualityOut", 0),
     lq_in |-> Get(rd, "LinkQualityIn", 0), cost |-> Get(rd, "RouteCost", 0)]

\* lines 367-377
Connections(diag) ==
    LET route_data == Get(Get(diag, "Route", EmptyObj), "RouteData", <<>>)
        kept == SelectSeq(route_data, RouteKept)
    IN  [k \in 1..Len(kept) |-> Connection(kept[k])]

\* a count of the children that were given a paired device
ChildCountMatched(children) ==
    Cardinality({k \in 1..Len(children) : "name" \in DOMAIN children[k]})

\* line 390
ChildCount(children) == Len(children)

\* lines 379-393
Node(diag, role, router_info, children) ==
    [ext_address |-> ExtAddressOf(diag),
     rloc16 |-> Get(diag, "Rloc16", 0),
     role |-> role,
     name |-> router_info.name,
     manufacturer |-> router_info.manufacturer,
     device_type |-> router_info.type,
     icon |-> Get(router_info, "icon", "router"),
     link_quality |-> LinkQuality(Get(diag, "Connectivity", EmptyObj)),
     leader_cost |-> Get(Get(diag, "Connectivity", EmptyObj), "LeaderCost", 0),
     children |-> children,
     child_count |-> ChildCount(children),
     connections |-> Connections(diag),
     ip_addresses |-> Get(diag, "IP6AddressList", <<>>)]

\* a builder that reads the hardware address of a record with diag["ExtAddress"]
SubscriptedExtAddress(kind) == IF kind = "record" THEN {"ExtAddress"} ELSE {}

\* the keys of an input object of the given kind (summary, record, child, route)
\* that lines 284-393 read with obj[key], which raises KeyError on a missing key:
\* none, every read is obj.get(key, default)
Subscripted(kind) == {}

\* obj lacks a key that is read with obj[key]
KeyError(obj, kind) == ~(Subscripted(kind) \subseteq DOMAIN obj)

\* the iteration of lines 299-393 for this record raises KeyError
RecordKeyError(diag) ==
    \/ KeyError(diag, "record")
    \/ \E k \in 1..Len(Get(diag, "ChildTable", <<>>)) :
           KeyError(Get(diag, "ChildTable", <<>>)[k], "child")
    \/ \E k \in 1..Len(Get(Get(diag, "Route", EmptyObj), "RouteData", <<>>)) :
           KeyError(Get(Get(diag, "Route", EmptyObj), "RouteData", <<>>)[k], "route")

\* a map in which the first node written for an address stays
DictSetKeepFirst(d, key, value) ==
    [k \in DOMAIN d \cup {key} |-> IF k \in DOMAIN d THEN d[k] ELSE value]

\* nodes[key] = value
DictSet(d, key, value) ==
    [k \in DOMAIN d \cup {key} |-> IF k = key THEN value ELSE d[k]]

IsThread(d) == d.transport = "thread"
IsWifi(d) == d.transport = "wifi"

\* a pool that is the whole paired-device list
ThreadMatterUnfiltered(devices) == devices

\* line 291
ThreadMatter(devices) == SelectSeq(devices, IsThread)

\* line 292
WifiMatter(devices) == SelectSeq(devices, IsWifi)

\* a summary whose total counts the devices with transport thread only
MatterSummaryThreadTotal(thread, wifi, devices) ==
    [thread |-> thread, wifi |-> wifi, total |-> Len(thread)]

\* lines 402-406
MatterSummary(thread, wifi, devices) ==
    [thread |-> thread, wifi |-> wifi, total |-> Len(devices)]

\* a total that leaves the nodes themselves out
TotalDevicesChildrenOnly(ns) ==
    SumOver([a \in DOMAIN ns |-> ns[a].child_count], DOMAIN ns)

\* line 401
TotalDevices(ns) ==
    Cardinality(DOMAIN ns) + SumOver([a \in DOMAIN ns |-> ns[a].child_count], DOMAIN ns)

----------------------------------------------------------------------------
(* Topology builder: one call of _process_topology *)

NoTopology == EmptyObj
NoIdentity == EmptyObj
NoCall == EmptyObj

\* what a config flow ends in; the fields that a kind of result lacks are empty
FlowResult(type, unique_id, title, entry_data, reason, errors, exception) ==
    [type |-> type, unique_id |-> unique_id, title |-> title, data |-> entry_data,
     reason |-> reason, errors |-> errors, exception |-> exception]
NoResult == FlowResult("none", "", <<>>, EmptyObj, "", EmptyObj, "")
NoInput == EmptyObj

\* no config flow has run
NoFlow ==
    /\ entries = <<>>
    /\ flow_input = NoInput
    /\ flow_result = NoResult
    /\ submissions = 0

\* no config entry takes part
NoEntry ==
    /\ NoFlow
    /\ phase = "not_loaded"
    /\ registered = FALSE
    /\ data = NoTopology
    /\ node_sensors = {}
    /\ setups = 0
    /\ handled = 0

\* no coordinator object takes part: the method under study reads no field of it
NoCoordinator ==
    /\ scan_interval = <<>>
    /\ update_interval = 0
    /\ _session = 0
    /\ _router_index = 0
    /\ closed = <<>>
    /\ cycles = 0
    /\ requests = <<>>
    /\ raised = <<>>
    /\ cycle_result = "none"
    /\ svg_path = "not_called"
    /\ svg_error = FALSE
    /\ id_again = NoIdentity
    /\ id_cycle = 0
    /\ NoEntry

\* the arguments of the call
Init ==
    /\ node_data \in NodePool
    /\ diagnostics_data \in SeqsUpTo(DiagPool, MaxDiags)
    /\ matter_devices \in DistinctSeqsUpTo(DevicePool, MaxDevices)
    /\ thread_routers \in RouterListPool
    /\ pc = "start"
    /\ leader_ext_address = EmptyStr
    /\ network_name = ""
    /\ num_routers = 0
    /\ state = ""
    /\ thread_matter = <<>>
    /\ wifi_matter = <<>>
    /\ nodes = EmptyObj
    /\ thread_device_idx = 0
    /\ router_index = 0
    /\ diag_pos = 0
    /\ topology = NoTopology
    /\ attached = <<>>
    /\ resolved = <<>>
    /\ id_call = NoCall
    /\ id_result = NoIdentity
    /\ NoCoordinator

\* lines 284-297
Enter ==
    /\ pc = "start"
    /\ IF KeyError(node_data, "summary")
       THEN /\ pc' = "raised"
            /\ UNCHANGED <<leader_ext_address, network_name, num_routers, state,
                           thread_matter, wifi_matter, nodes, thread_device_idx,
                           router_index>>
       ELSE /\ leader_ext_address' = Get(node_data, "ExtAddress", EmptyStr)
            /\ network_name' = Get(node_data, "NetworkName", "Unknown")
            /\ num_routers' = Get(node_data, "NumOfRouter", 0)
            /\ state' = Get(node_data, "State", "unknown")
            /\ thread_matter' = ThreadMatter(matter_devices)
            /\ wifi_matter' = WifiMatter(matter_devices)
            /\ nodes' = EmptyObj
            /\ thread_device_idx' = 0
            /\ router_index' = 0
            /\ pc' = "loop"
    /\ UNCHANGED <<node_data, diagnostics_data, matter_devices, thread_routers, diag_pos, topology,
                   attached, resolved, id_vars, cycle_vars, entry_vars, flow_vars>>

\* lines 299-393: one iteration of the loop over diagnostics_data
ProcessDiag ==
    /\ pc = "loop"
    /\ diag_pos < Len(diagnostics_data)
    /\ LET diag == diagnostics_data[diag_pos + 1]
           is_router == IsRouter(diag)
           is_leader == IsLeader(diag, leader_ext_address)
           role == Role(is_leader, is_router)
           router_info == _identify_router(ExtAddressOf(diag), is_leader, router_index)
           loop == ChildLoop(Get(diag, "ChildTable", <<>>), Get(diag, "Rloc16", 0),
                             thread_matter, thread_device_idx)
       IN  IF RecordKeyError(diag)
           THEN /\ pc' = "raised"
                /\ UNCHANGED <<router_index, thread_device_idx, nodes, attached, resolved,
                               diag_pos>>
           ELSE /\ router_index' = NextRouterIndex(role, router_index)
                /\ thread_device_idx' = loop.idx
                /\ nodes' = DictSet(nodes, ExtAddressOf(diag),
                                    Node(diag, role, router_info, loop.children))
                /\ attached' = Append(attached, loop.picks)
                /\ resolved' = Append(resolved, [ext_address |-> ExtAddressOf(diag),
                                                  is_leader |-> is_leader,
                                                  router_index |-> router_index])
                /\ diag_pos' = diag_pos + 1
                /\ pc' = pc
    /\ UNCHANGED <<node_data, diagnostics_data, matter_devices, thread_routers, leader_ext_address,
                   network_name, num_routers, state, thread_matter, wifi_matter,
                   topology, id_vars, cycle_vars, entry_vars, flow_vars>>

\* lines 395-408
Return ==
    /\ pc = "loop"
    /\ diag_pos = Len(diagnostics_data)
    /\ topology' =
           [network_name |-> network_name,
            state |-> state,
            leader_address |-> leader_ext_address,
            router_count |-> num_routers,
            nodes |-> nodes,
            total_devices |-> TotalDevices(nodes),
            matter_devices |-> MatterSummary(thread_matter, wifi_matter, matter_devices),
            known_routers |-> thread_routers]
    /\ pc' = "done"
    /\ UNCHANGED <<node_data, diagnostics_data, matter_devices, thread_routers, leader_ext_address,
                   network_name, num_routers, state, thread_matter, wifi_matter, nodes,
                   thread_device_idx, router_index, diag_pos, attached, resolved, id_vars,
                   cycle_vars, entry_vars, flow_vars>>

Next == Enter \/ ProcessDiag \/ Return

Spec == Init /\ [][Next]_vars

----------------------------------------------------------------------------
(* Router identity resolver: one direct call of _identify_router *)

InitIdentify ==
    /\ id_call \in [ext_address : AddrPool, is_leader : BOOLEAN,
                    router_index : 0..MaxRouterIndex]
    /\ id_result = NoIdentity
    /\ node_data = EmptyObj
    /\ diagnostics_data = <<>>
    /\ matter_devices = <<>>
    /\ thread_routers = <<>>
    /\ pc = "idle"
    /\ leader_ext_address = EmptyStr
    /\ network_name = ""
    /\ num_routers = 0
    /\ state = ""
    /\ thread_matter = <<>>
    /\ wifi_matter = <<>>
    /\ nodes = EmptyObj
    /\ thread_device_idx = 0
    /\ router_index = 0
    /\ diag_pos = 0
    /\ topology = NoTopology
    /\ attached = <<>>
    /\ resolved = <<>>
    /\ NoCoordinator

\* lines 199-260
IdentifyRouter ==
    /\ pc = "idle"
    /\ id_result = NoIdentity
    /\ id_result' = _identify_router(id_call.ext_address, id_call.is_leader,
                                      id_call.router_index)
    /\ UNCHANGED <<id_call, build_vars, cycle_vars, entry_vars, flow_vars>>

NextIdentify == IdentifyRouter

SpecIdentify == InitIdentify /\ [][NextIdentify]_vars

----------------------------------------------------------------------------
(* The coordinator: construction, refresh cycles, shutdown, resolver calls *)

\* const.py line 13
DEFAULT_SCAN_INTERVAL == 30

\* const.py lines 9-10
ENDPOINT_NODE == "/node"
ENDPOINT_DIAGNOSTICS == "/diagnostics"

\* the scan_interval arguments tried: omitted, or given
ScanIntervalArgs == { <<>>, <<120>> }

\* lines 87, 94: update_interval=timedelta(seconds=scan_interval), with the
\* default of the parameter
UpdateInterval(arg) == IF arg = <<>> THEN DEFAULT_SCAN_INTERVAL ELSE arg[1]

\* how _fetch_endpoint (lines 136-141) ends: it returns the parsed body, or
\* session.get raises a connection error or a timeout, raise_for_status raises
\* ClientResponseError, or response.json() raises on a body that is not JSON
FetchOutcomes ==
    { "ok", "ClientConnectorError", "ClientResponseError", "TimeoutError",
      "JSONDecodeError" }

\* the exception classes above that derive from aiohttp.ClientError
ClientErrors == { "ClientConnectorError", "ClientResponseError" }

\* handlers that leave the timeout out
HandledClientOnly(exc) == exc \in ClientErrors

\* lines 131-134: the two except clauses of _async_update_data
Handled(exc) == exc \in ClientErrors \/ exc = "TimeoutError"

\* what _async_update_data raises when exc is raised inside its try block
CycleOutcome(exc) == IF Handled(exc) THEN "UpdateFailed" ELSE exc

\* a save_svg_to_www without its except clause
SaveSvgUncaught(fails) ==
    [raised |-> IF fails THEN "OSError" ELSE "none",
     value |-> IF fails THEN "not_returned" ELSE "/local/thread_topology.svg"]

\* lines 640-658: the whole body is in a try whose except Exception returns None
save_svg_to_www(fails) ==
    [raised |-> "none",
     value |-> IF fails THEN "None" ELSE "/local/thread_topology.svg"]

\* lines 299-393 over the records dd, from the given nodes, cursor and index
RECURSIVE BuildNodes(_, _, _, _, _, _)
BuildNodes(dd, leader, pool, ns, idx, ridx) ==
    IF dd = <<>> THEN ns
    ELSE LET diag == Head(dd)
             is_router == IsRouter(diag)
             is_leader == IsLeader(diag, leader)
             role == Role(is_leader, is_router)
             router_info == _identify_router(ExtAddressOf(diag), is_leader, ridx)
             loop == ChildLoop(Get(diag, "ChildTable", <<>>), Get(diag, "Rloc16", 0),
                               pool, idx)
         IN  BuildNodes(Tail(dd), leader, pool,
                        DictSet(ns, ExtAddressOf(diag),
                                Node(diag, role, router_info, loop.children)),
                        loop.idx,
                        NextRouterIndex(role, ridx))

\* the fields of the coordinator object at a call of one of its methods
Self == [_session |-> _session, _router_index |-> _router_index, data |-> data]

\* a builder that keeps its node map in the coordinator between calls
ProcessTopologyKeepsNodes(self, nd, dd, md, tr) ==
    LET ns == BuildNodes(dd, Get(nd, "ExtAddress", EmptyStr), ThreadMatter(md),
                         Get(self.data, "nodes", EmptyObj), 0, 0)
    IN  [network_name |-> Get(nd, "NetworkName", "Unknown"),
         state |-> Get(nd, "State", "unknown"),
         leader_address |-> Get(nd, "ExtAddress", EmptyStr),
         router_count |-> Get(nd, "NumOfRouter", 0),
         nodes |-> ns,
         total_devices |-> TotalDevices(ns),
         matter_devices |-> MatterSummary(ThreadMatter(md), WifiMatter(md), md),
         known_routers |-> tr]

\* lines 276-408 as one call on the coordinator self: the node map, the cursor
\* and the router index are locals set at lines 295-297, and no field of self
\* is read
_process_topology(self, nd, dd, md, tr) ==
    LET ns == BuildNodes(dd, Get(nd, "ExtAddress", EmptyStr), ThreadMatter(md),
                         EmptyObj, 0, 0)
    IN  [network_name |-> Get(nd, "NetworkName", "Unknown"),
         state |-> Get(nd, "State", "unknown"),
         leader_address |-> Get(nd, "ExtAddress", EmptyStr),
         router_count |-> Get(nd, "NumOfRouter", 0),
         nodes |-> ns,
         total_devices |-> TotalDevices(ns),
         matter_devices |-> MatterSummary(ThreadMatter(md), WifiMatter(md), md),
         known_routers |-> tr]

\* what the two endpoints answer and what the registry holds in a cycle
CycleNodePool == { NodeFull, EmptyObj }
CycleDiagnostics == { <<>>, <<DiagSky, DiagPlainLeaf>>, <<DiagPlain, DiagEero>> }
CycleDevices == { <<>>, <<DevNuki, DevMeross>> }

\* the arguments of the direct calls of the resolver
CallPool == [ext_address : {AddrPlain, AddrShort}, is_leader : BOOLEAN, router_index : 0..1]

\* the locals of _process_topology are not traced in this specification
NoBuildLocals ==
    /\ leader_ext_address = EmptyStr
    /\ network_name = ""
    /\ num_routers = 0
    /\ state = ""
    /\ thread_matter = <<>>
    /\ wifi_matter = <<>>
    /\ nodes = EmptyObj
    /\ thread_device_idx = 0
    /\ router_index = 0
    /\ diag_pos = 0
    /\ attached = <<>>
    /\ resolved = <<>>

build_locals == <<leader_ext_address, network_name, num_routers, state, thread_matter,
                  wifi_matter, nodes, thread_device_idx, router_index, diag_pos, attached,
                  resolved>>

\* lines 83-98: the coordinator after __init__
InitCycle ==
    /\ scan_interval \in ScanIntervalArgs
    /\ update_interval = UpdateInterval(scan_interval)
    /\ _session = 0
    /\ _router_index = 0
    /\ closed = <<>>
    /\ cycles = 0
    /\ requests = <<>>
    /\ raised = <<>>
    /\ cycle_result = "none"
    /\ svg_path = "not_called"
    /\ svg_error = FALSE
    /\ pc = "idle"
    /\ node_data = EmptyObj
    /\ diagnostics_data = <<>>
    /\ matter_devices = <<>>
    /\ thread_routers = <<>>
    /\ topology = NoTopology
    /\ id_call = NoCall
    /\ id_result = NoIdentity
    /\ id_again = NoIdentity
    /\ id_cycle = 0
    /\ NoBuildLocals
    /\ NoEntry

\* lines 102-110: _async_update_data up to the first await
StartCycle ==
    /\ pc = "idle"
    /\ cycles < MaxCycles
    /\ cycles' = cycles + 1
    /\ IF _session = 0
       THEN /\ _session' = Len(closed) + 1
            /\ closed' = Append(closed, 0)
       ELSE UNCHANGED <<_session, closed>>
    /\ _router_index' = 0
    /\ requests' = <<ENDPOINT_NODE>>
    /\ pc' = "await_node"
    /\ node_data' = EmptyObj
    /\ diagnostics_data' = <<>>
    /\ matter_devices' = <<>>
    /\ thread_routers' = <<>>
    /\ topology' = NoTopology
    /\ raised' = <<>>
    /\ cycle_result' = "pending"
    /\ svg_path' = "not_called"
    /\ svg_error' = FALSE
    /\ UNCHANGED <<scan_interval, update_interval, id_vars, id_again, id_cycle, build_locals,
                   entry_vars, flow_vars>>

\* line 110 resumes; lines 113, 131-134
FetchNode ==
    /\ pc = "await_node"
    /\ \E outcome \in FetchOutcomes :
           IF outcome = "ok"
           THEN /\ node_data' \in CycleNodePool
                /\ requests' = Append(requests, ENDPOINT_DIAGNOSTICS)
                /\ pc' = "await_diag"
                /\ UNCHANGED <<raised, cycle_result>>
           ELSE /\ raised' = <<outcome, ENDPOINT_NODE>>
                /\ cycle_result' = CycleOutcome(outcome)
                /\ pc' = "idle"
                /\ UNCHANGED <<node_data, requests>>
    /\ UNCHANGED <<scan_interval, update_interval, _session, _router_index, closed, cycles,
                   svg_path, svg_error, diagnostics_data, matter_devices, thread_routers,
                   topology, id_vars, id_again, id_cycle, build_locals, entry_vars, flow_vars>>

\* line 113 resumes; lines 116-134
FetchDiagnostics ==
    /\ pc = "await_diag"
    /\ \E outcome \in FetchOutcomes :
           IF outcome = "ok"
           THEN \E dd \in CycleDiagnostics, md \in CycleDevices, tr \in RouterListPool,
                   fails \in BOOLEAN :
                    LET svg == save_svg_to_www(fails)
                    IN  /\ diagnostics_data' = dd
                        /\ matter_devices' = md
                        /\ thread_routers' = tr
                        /\ topology' = _process_topology(Self, node_data, dd, md, tr)
                        /\ svg_error' = fails
                        /\ svg_path' = svg.value
                        /\ cycle_result' = IF svg.raised = "none" THEN "returned"
                                           ELSE CycleOutcome(svg.raised)
                        /\ UNCHANGED raised
           ELSE /\ raised' = <<outcome, ENDPOINT_DIAGNOSTICS>>
                /\ cycle_result' = CycleOutcome(outcome)
                /\ UNCHANGED <<diagnostics_data, matter_devices, thread_routers, topology,
                               svg_path, svg_error>>
    /\ pc' = "idle"
    /\ UNCHANGED <<scan_interval, update_interval, _session, _router_index, closed, cycles,
                   requests, node_data, id_vars, id_again, id_cycle, build_locals, entry_vars, flow_vars>>

\* a shutdown that closes the session and keeps the reference to it
AsyncShutdownKeepsSession(session, closes) ==
    IF session # 0
    THEN [_session |-> session, closed |-> [closes EXCEPT ![session] = @ + 1]]
    ELSE [_session |-> session, closed |-> closes]

\* lines 660-664: the session field and the close counts after async_shutdown
async_shutdown(session, closes) ==
    IF session # 0
    THEN [_session |-> 0, closed |-> [closes EXCEPT ![session] = @ + 1]]
    ELSE [_session |-> session, closed |-> closes]

\* lines 660-664
Shutdown ==
    /\ pc = "idle"
    /\ _session' = async_shutdown(_session, closed)._session
    /\ closed' = async_shutdown(_session, closed).closed
    /\ UNCHANGED <<scan_interval, update_interval, _router_index, cycles, requests, raised,
                   cycle_result, svg_path, svg_error, id_again, id_cycle, id_vars,
                   build_vars, entry_vars, flow_vars>>

\* lines 199-260: a direct call of the resolver on the coordinator
CallIdentify ==
    /\ pc = "idle"
    /\ \E c \in CallPool :
           /\ id_call' = c
           /\ id_result' = _identify_router(c.ext_address, c.is_leader, c.router_index)
    /\ id_again' = NoIdentity
    /\ id_cycle' = cycles
    /\ UNCHANGED <<scan_interval, update_interval, _session, _router_index, closed, cycles,
                   requests, raised, cycle_result, svg_path, svg_error, build_vars,
                   entry_vars, flow_vars>>

\* lines 199-260: a later call with the arguments of the call before
CallIdentifyAgain ==
    /\ pc = "idle"
    /\ id_call # NoCall
    /\ id_again' = _identify_router(id_call.ext_address, id_call.is_leader,
                                     id_call.router_index)
    /\ UNCHANGED <<scan_interval, update_interval, _session, _router_index, closed, cycles,
                   requests, raised, cycle_result, svg_path, svg_error, id_cycle, id_vars,
                   build_vars, entry_vars, flow_vars>>

NextCycle ==
    \/ StartCycle
    \/ FetchNode
    \/ FetchDiagnostics
    \/ Shutdown
    \/ CallIdentify
    \/ CallIdentifyAgain

SpecCycle == InitCycle /\ [][NextCycle]_vars

----------------------------------------------------------------------------
(* The config entry: setup, scheduled refreshes, node sensors, unload *)

\* The base class DataUpdateCoordinator is not part of the repository.  What
\* the model takes from it: async_config_entry_first_refresh runs one refresh
\* and raises ConfigEntryNotReady when it fails; a refresh calls
\* _async_update_data, stores what it returns in coordinator.data and keeps the
\* previous data when it raises; refreshes of one coordinator do not overlap.

\* sensor.py lines 33-35: the addresses that get a ThreadNodeSensor
NodeSensors(d) == IF d = NoTopology THEN {} ELSE DOMAIN Get(d, "nodes", EmptyObj)

\* coordinator.py lines 83-98: the coordinator as the constructor leaves it
FreshSelf == [_session |-> 0, _router_index |-> 0, data |-> NoTopology]

\* nothing is set up
InitEntry ==
    /\ NoEntry
    /\ NoCoordinator
    /\ NoBuildLocals
    /\ pc = "idle"
    /\ node_data = EmptyObj
    /\ diagnostics_data = <<>>
    /\ matter_devices = <<>>
    /\ thread_routers = <<>>
    /\ topology = NoTopology
    /\ id_call = NoCall
    /\ id_result = NoIdentity

\* __init__.py lines 18-25, up to the await of the first refresh: a new
\* coordinator is constructed (coordinator.py lines 83-98)
SetupEntry ==
    /\ phase = "not_loaded"
    /\ pc = "idle"
    /\ setups < MaxSetups
    /\ setups' = setups + 1
    /\ phase' = "first_refresh"
    /\ scan_interval' = <<>>
    /\ update_interval' = UpdateInterval(<<>>)
    /\ _session' = 0
    /\ _router_index' = 0
    /\ cycles' = 0
    /\ handled' = 0
    /\ data' = NoTopology
    /\ requests' = <<>>
    /\ raised' = <<>>
    /\ cycle_result' = "none"
    /\ svg_path' = "not_called"
    /\ svg_error' = FALSE
    /\ node_data' = EmptyObj
    /\ diagnostics_data' = <<>>
    /\ matter_devices' = <<>>
    /\ thread_routers' = <<>>
    /\ topology' = NoTopology
    /\ UNCHANGED <<flow_vars, closed, registered, node_sensors, pc, id_vars, id_again, id_cycle,
                   build_locals>>

\* the first refresh of a new coordinator, or a scheduled refresh of a loaded
\* entry: coordinator.py lines 102-110
RefreshStart ==
    /\ phase \in {"first_refresh", "loaded"}
    /\ phase = "first_refresh" => cycles = 0
    /\ handled = cycles
    /\ StartCycle

\* __init__.py lines 25-32 after the first refresh, with the sensor platform
\* set up by line 30 (sensor.py lines 19-37)
FirstRefreshDone ==
    /\ phase = "first_refresh"
    /\ pc = "idle"
    /\ handled < cycles
    /\ handled' = cycles
    /\ IF cycle_result = "returned"
       THEN /\ data' = topology
            /\ registered' = TRUE
            /\ node_sensors' = NodeSensors(topology)
            /\ phase' = "loaded"
       ELSE /\ phase' = "not_loaded"
            /\ UNCHANGED <<data, registered, node_sensors>>
    /\ UNCHANGED <<setups, build_vars, id_vars, cycle_vars, flow_vars>>

\* the end of a scheduled refresh: coordinator.data is what the cycle returned,
\* or stays as it was when the cycle raised; sensor.py adds and removes no
\* entity after setup
RefreshDone ==
    /\ phase = "loaded"
    /\ pc = "idle"
    /\ handled < cycles
    /\ handled' = cycles
    /\ data' = IF cycle_result = "returned" THEN topology ELSE data
    /\ UNCHANGED <<phase, registered, node_sensors, setups, build_vars, id_vars, cycle_vars,
                   flow_vars>>

\* __init__.py lines 35-43, between refreshes
UnloadEntry ==
    /\ phase = "loaded"
    /\ pc = "idle"
    /\ handled = cycles
    /\ \E unload_ok \in BOOLEAN :
           IF unload_ok
           THEN /\ registered' = FALSE
                /\ node_sensors' = {}
                /\ _session' = async_shutdown(_session, closed)._session
                /\ closed' = async_shutdown(_session, closed).closed
                /\ phase' = "not_loaded"
           ELSE UNCHANGED <<registered, node_sensors, _session, closed, phase>>
    /\ UNCHANGED <<flow_vars, data, setups, handled, scan_interval, update_interval, _router_index,
                   cycles, requests, raised, cycle_result, svg_path, svg_error, id_again,
                   id_cycle, id_vars, build_vars>>

NextEntry ==
    \/ SetupEntry
    \/ RefreshStart
    \/ FetchNode
    \/ FetchDiagnostics
    \/ FirstRefreshDone
    \/ RefreshDone
    \/ UnloadEntry

SpecEntry == InitEntry /\ [][NextEntry]_vars

----------------------------------------------------------------------------
(* The config flow: async_step_user *)

\* The flow manager of Home Assistant is not part of the repository.  What the
\* model takes from it: async_create_entry adds a config entry whose unique id
\* is the one set by async_set_unique_id; _abort_if_unique_id_configured raises
\* AbortFlow when an entry of the domain has the flow's unique id, and the
\* flow then ends in an abort result with reason already_configured (tests
\* test_already_configured); the calls of async_step_user do not interleave.

CONF_URL == "url"
DEFAULT_OTBR_URL == "http://core-openthread-border-router:8081"

\* the user input of a submission: the URL left out, or given
UserInputs == { EmptyObj, [url |-> "http://192.168.1.100:8081"] }

\* the body of a response: a JSON object, JSON that is no object, text that is
\* no JSON under a JSON content type, or another content type
Body(kind, value) == [kind |-> kind, value |-> value]
FlowBodies ==
    { Body("object", [NetworkName |-> "MyHome1038137341"]),
      Body("object", [NetworkName |-> "OpenThread", State |-> "leader"]),
      Body("object", EmptyObj),
      Body("array", EmptyObj),
      Body("invalid", EmptyObj),
      Body("content_type", EmptyObj) }

\* what the GET of lines 35-38 ends in: a response, or an exception
Response(outcome, status, body) == [outcome |-> outcome, status |-> status, body |-> body]
FlowResponses ==
    { Response("response", 200, b) : b \in FlowBodies }
        \cup { Response("response", 500, Body("content_type", EmptyObj)),
               Response("ClientConnectorError", 0, Body("content_type", EmptyObj)),
               Response("TimeoutError", 0, Body("content_type", EmptyObj)) }

\* line 40 and line 41: the exception that response.json() or data.get raises,
\* "" when there is none
JsonError(body) ==
    CASE body.kind = "object" -> ""
      [] body.kind = "array" -> "AttributeError"
      [] body.kind = "invalid" -> "JSONDecodeError"
      [] OTHER -> "ContentTypeError"

\* the exception raised inside the try block of lines 33-51, "" when none
TryError(response) ==
    IF response.outcome # "response" THEN response.outcome
    ELSE IF response.status = 200 THEN JsonError(response.body)
    ELSE ""

\* lines 57-69
ShowFormResult(errors) == FlowResult("form", "", <<>>, EmptyObj, "", errors, "")

\* lines 52-55: the except clauses; ContentTypeError is a ClientResponseError
ExceptResult(exc) ==
    IF exc \in ClientErrors \cup {"ContentTypeError"}
    THEN ShowFormResult([base |-> "cannot_connect"])
    ELSE IF exc = "TimeoutError"
    THEN ShowFormResult([base |-> "timeout"])
    ELSE FlowResult("raised", "", <<>>, EmptyObj, "", EmptyObj, exc)

\* lines 23-69 for a submitted form, with the unique ids already configured
async_step_user(user_input, response, configured) ==
    LET otbr_url == Get(user_input, CONF_URL, DEFAULT_OTBR_URL)
        exc == TryError(response)
        flow_network_name == Get(response.body.value, "NetworkName", "Thread Network")
    IN  IF exc # ""
        THEN ExceptResult(exc)
        ELSE IF response.status = 200
        THEN IF flow_network_name \in configured
             THEN FlowResult("abort", flow_network_name, <<>>, EmptyObj, "already_configured",
                             EmptyObj, "")
             ELSE FlowResult("create_entry", flow_network_name, <<"Thread: ", flow_network_name>>,
                             [otbr_url |-> otbr_url], "", EmptyObj, "")
        ELSE ShowFormResult([base |-> "cannot_connect"])

\* the unique ids of the config entries of the domain
ConfiguredIds(es) == { es[i].unique_id : i \in 1..Len(es) }

InitFlow == InitEntry

\* lines 27-29 and 57-69 with user_input None: the empty form
ShowForm ==
    /\ flow_result' = ShowFormResult(EmptyObj)
    /\ flow_input' = NoInput
    /\ UNCHANGED <<entries, submissions, build_vars, id_vars, cycle_vars, entry_vars>>

\* one submission of the form
SubmitForm ==
    /\ submissions < MaxSubmissions
    /\ submissions' = submissions + 1
    /\ \E user_input \in UserInputs, response \in FlowResponses :
           LET configured == ConfiguredIds(entries)
               result == async_step_user(user_input, response, configured)
           IN  /\ flow_input' = [user_input |-> user_input,
                                 request |-> <<Get(user_input, CONF_URL, DEFAULT_OTBR_URL),
                                               ENDPOINT_NODE>>,
                                 response |-> response,
                                 configured |-> configured]
               /\ flow_result' = result
               /\ entries' = IF result.type = "create_entry"
                             THEN Append(entries, [unique_id |-> result.unique_id,
                                                   title |-> result.title,
                                                   data |-> result.data])
                             ELSE entries
    /\ UNCHANGED <<build_vars, id_vars, cycle_vars, entry_vars>>

NextFlow ==
    \/ ShowForm
    \/ SubmitForm

SpecFlow == InitFlow /\ [][NextFlow]_vars

----------------------------------------------------------------------------
(* Properties of the topology builder *)

\* the records the loop has consumed
Consumed == 1..diag_pos

\* the record the node of address a was built from: the last consumed record
\* that carries a
BuiltFrom(a) ==
    CHOOSE k \in Consumed :
        /\ ExtAddressOf(diagnostics_data[k]) = a
        /\ \A j \in (k + 1)..diag_pos : ExtAddressOf(diagnostics_data[j]) # a

\* the records whose node is still in the node map
Surviving == {k \in Consumed : BuiltFrom(ExtAddressOf(diagnostics_data[k])) = k}

Returned == pc = "done"

SharedAddress ==
    \E j, k \in 1..Len(diagnostics_data) :
        j # k /\ ExtAddressOf(diagnostics_data[j]) = ExtAddressOf(diagnostics_data[k])

\* C1: the returned topology has total_devices = number of nodes + sum of the
\* nodes' child_count, also when records share a hardware address.
C1_TotalDevices ==
    Returned =>
        topology.total_devices =
            Cardinality(DOMAIN topology.nodes)
                + SumOver([a \in DOMAIN topology.nodes |-> topology.nodes[a].child_count],
                          DOMAIN topology.nodes)

\* a returned topology built from records that share an address, with children
C1_Witness ==
    /\ Returned
    /\ SharedAddress
    /\ topology.total_devices > Cardinality(DOMAIN topology.nodes)

LeaderNodes(ns) == {a \in DOMAIN ns : ns[a].role = "leader"}

LeaderAddressReported ==
    \E k \in 1..Len(diagnostics_data) :
        Get(diagnostics_data[k], "ExtAddress", EmptyStr)
            = Get(node_data, "ExtAddress", EmptyStr)

\* C2: the returned node map has exactly one leader node when some record carries
\* the summary's leader address and none otherwise; without a leader a topology
\* is returned all the same.
C2_OneLeader ==
    Returned =>
        /\ topology # NoTopology
        /\ IF LeaderAddressReported
           THEN Cardinality(LeaderNodes(topology.nodes)) = 1
           ELSE LeaderNodes(topology.nodes) = {}

\* a returned topology whose leader address is carried by two records
C2_Witness ==
    /\ Returned
    /\ Cardinality({k \in 1..Len(diagnostics_data) :
           ExtAddressOf(diagnostics_data[k]) = leader_ext_address}) = 2
    /\ Cardinality(LeaderNodes(topology.nodes)) = 1

\* a topology without a leader, returned for a non-empty diagnostics list
C2_WitnessNoLeader ==
    /\ Returned
    /\ ~LeaderAddressReported
    /\ DOMAIN topology.nodes # {}
    /\ LeaderNodes(topology.nodes) = {}

\* the role the claim gives a record
ClaimedRole(diag) ==
    IF Get(diag, "ExtAddress", EmptyStr) = Get(node_data, "ExtAddress", EmptyStr)
    THEN "leader"
    ELSE IF "Mode" \in DOMAIN diag /\ "DeviceType" \in DOMAIN diag.Mode
             /\ diag.Mode.DeviceType = 1
    THEN "router"
    ELSE "end_device"

\* C3: a record's role is leader if it carries the leader address, else router if
\* Mode.DeviceType = 1, else end_device (also without Mode or DeviceType).  Every
\* record is the last consumed one in some state, so this covers every record.
C3_RoleOrder ==
    \A a \in DOMAIN nodes :
        /\ nodes[a].role = ClaimedRole(diagnostics_data[BuiltFrom(a)])
        /\ nodes[a].role \in {"leader", "router", "end_device"}

\* a leader record that is not router-capable, and an end device without DeviceType
C3_Witness ==
    /\ \E a \in DOMAIN nodes :
           /\ nodes[a].role = "leader"
           /\ ~IsRouter(diagnostics_data[BuiltFrom(a)])
    /\ \E a \in DOMAIN nodes :
           /\ nodes[a].role = "end_device"
           /\ "Mode" \in DOMAIN diagnostics_data[BuiltFrom(a)]
           /\ "DeviceType" \notin DOMAIN diagnostics_data[BuiltFrom(a)].Mode

\* the counter of a tier, 0 when the record does not carry it
TierCounter(diag, tier) ==
    LET key == CASE tier = 3 -> "LinkQuality3"
                 [] tier = 2 -> "LinkQuality2"
                 [] tier = 1 -> "LinkQuality1"
    IN  IF "Connectivity" \in DOMAIN diag /\ key \in DOMAIN diag.Connectivity
        THEN diag.Connectivity[key] ELSE 0

\* C4: link_quality is the highest tier in {3,2,1} whose counter is positive, or 0
\* when none is; it lies in 0..3.
C4_LinkQuality ==
    \A a \in DOMAIN nodes :
        LET diag == diagnostics_data[BuiltFrom(a)]
            tiers == {t \in 1..3 : TierCounter(diag, t) > 0}
        IN  /\ nodes[a].link_quality \in 0..3
            /\ tiers = {} => nodes[a].link_quality = 0
            /\ tiers # {} =>
                   /\ nodes[a].link_quality \in tiers
                   /\ \A t \in tiers : t <= nodes[a].link_quality

\* a node of quality 1 whose tier-1 counter exceeds 1, and a node of quality 3
\* with all three counters positive
C4_Witness ==
    /\ \E a \in DOMAIN nodes :
           /\ nodes[a].link_quality = 1
           /\ TierCounter(diagnostics_data[BuiltFrom(a)], 1) > 1
    /\ \E a \in DOMAIN nodes :
           /\ nodes[a].link_quality = 3
           /\ \A t \in 1..3 : TierCounter(diagnostics_data[BuiltFrom(a)], t) > 0

\* C5: child_count = len(children) = len(ChildTable) of the record the node was
\* built from, for the nodes of the loop and of the returned topology.
C5_ChildCount ==
    /\ \A a \in DOMAIN nodes :
           LET diag == diagnostics_data[BuiltFrom(a)]
               table == IF "ChildTable" \in DOMAIN diag THEN diag.ChildTable ELSE <<>>
           IN  /\ nodes[a].child_count = Len(nodes[a].children)
               /\ Len(nodes[a].children) = Len(table)
    /\ Returned => topology.nodes = nodes

\* a returned node with three children of which only some got a paired device
C5_Witness ==
    /\ Returned
    /\ \E a \in DOMAIN topology.nodes :
           /\ topology.nodes[a].child_count = 3
           /\ \E k \in 1..3 : "name" \in DOMAIN topology.nodes[a].children[k]
           /\ \E k \in 1..3 : "name" \notin DOMAIN topology.nodes[a].children[k]

\* the children of consumed record k: <<k, j>> for the j-th entry of its table
ChildSlots(K) == UNION {{<<k, j>> : j \in 1..Len(attached[k])} : k \in K}

\* C6: no position of the mesh-transport pool is attached to two children of the
\* nodes of the topology.
C6_AtMostOneChild ==
    \A c, d \in ChildSlots(Surviving) :
        (c # d /\ attached[c[1]][c[2]] > 0) => attached[c[1]][c[2]] # attached[d[1]][d[2]]

\* two nodes of a returned topology that each have a child with a paired device
C6_Witness ==
    /\ Returned
    /\ \E c, d \in ChildSlots(Surviving) :
           c[1] # d[1] /\ attached[c[1]][c[2]] > 0 /\ attached[d[1]][d[2]] > 0

\* the paired devices with transport thread, in input order
RECURSIVE ThreadOnly(_)
ThreadOnly(devices) ==
    IF devices = <<>> THEN <<>>
    ELSE IF Head(devices).transport = "thread"
         THEN <<Head(devices)>> \o ThreadOnly(Tail(devices))
         ELSE ThreadOnly(Tail(devices))

\* the ChildTable of a record
TableOf(diag) == IF "ChildTable" \in DOMAIN diag THEN diag.ChildTable ELSE <<>>

\* the number of children traversed before record k
RECURSIVE ChildrenBefore(_)
ChildrenBefore(k) ==
    IF k <= 1 THEN 0
    ELSE ChildrenBefore(k - 1) + Len(TableOf(diagnostics_data[k - 1]))

HasIdentity(child) ==
    "name" \in DOMAIN child \/ "manufacturer" \in DOMAIN child \/ "model" \in DOMAIN child

Carries(child, device) ==
    /\ {"name", "manufacturer", "model"} \subseteq DOMAIN child
    /\ child.name = device.name
    /\ child.manufacturer = device.manufacturer
    /\ child.model = device.model

\* C7: the n-th child traversed (records in input order, children in table order)
\* carries name, manufacturer and model of the n-th paired device with transport
\* thread, and no child carries a device with transport wifi.
C7_FirstComeFirstServed ==
    \A a \in DOMAIN nodes :
        LET k == BuiltFrom(a)
            pool == ThreadOnly(matter_devices)
        IN  \A j \in 1..Len(nodes[a].children) :
                LET n == ChildrenBefore(k) + j
                    child == nodes[a].children[j]
                IN  /\ n <= Len(pool) => Carries(child, pool[n])
                    /\ \A p \in 1..Len(matter_devices) :
                           (matter_devices[p].transport = "wifi" /\ HasIdentity(child))
                               => ~Carries(child, matter_devices[p])

\* the list has a wifi device before a thread device, and the second child
\* traversed, in the second record, carries the second thread device
C7_Witness ==
    /\ Len(matter_devices) = 3
    /\ matter_devices[1].transport = "wifi"
    /\ diag_pos = 2
    /\ ChildrenBefore(2) = 1
    /\ \E a \in DOMAIN nodes :
           /\ BuiltFrom(a) = 2
           /\ Len(nodes[a].children) >= 1
           /\ Carries(nodes[a].children[1], matter_devices[3])

\* C8: a child traversed after the mesh-transport pool is used up has no name,
\* manufacturer or model, and the build still returns a topology; with an empty
\* pool no child has one.
C8_Exhaustion ==
    /\ \A a \in DOMAIN nodes :
           \A j \in 1..Len(nodes[a].children) :
               ChildrenBefore(BuiltFrom(a)) + j > Len(ThreadOnly(matter_devices))
                   => ~HasIdentity(nodes[a].children[j])
    /\ Returned => topology # NoTopology /\ topology.nodes = nodes

\* a returned topology with a non-empty pool, a child that carries its last
\* device and a later child without identity
C8_Witness ==
    /\ Returned
    /\ Len(ThreadOnly(matter_devices)) > 0
    /\ \E a, b \in DOMAIN topology.nodes :
           \E i \in 1..Len(topology.nodes[a].children) :
               \E j \in 1..Len(topology.nodes[b].children) :
                   /\ ChildrenBefore(BuiltFrom(a)) + i = Len(ThreadOnly(matter_devices))
                   /\ HasIdentity(topology.nodes[a].children[i])
                   /\ ChildrenBefore(BuiltFrom(b)) + j > Len(ThreadOnly(matter_devices))
                   /\ ~HasIdentity(topology.nodes[b].children[j])

\* a returned topology with children and an empty mesh-transport pool
C8_WitnessEmptyPool ==
    /\ Returned
    /\ matter_devices # <<>>
    /\ ThreadOnly(matter_devices) = <<>>
    /\ \E a \in DOMAIN topology.nodes : topology.nodes[a].child_count > 0

\* the route entries of a record
RouteDataOf(diag) ==
    IF "Route" \in DOMAIN diag /\ "RouteData" \in DOMAIN diag.Route
    THEN diag.Route.RouteData ELSE <<>>

\* the route entries that carry a cost below 255, in source order
RECURSIVE BelowUnreachable(_)
BelowUnreachable(route_data) ==
    IF route_data = <<>> THEN <<>>
    ELSE IF "RouteCost" \in DOMAIN Head(route_data) /\ Head(route_data).RouteCost < 255
         THEN <<Head(route_data)>> \o BelowUnreachable(Tail(route_data))
         ELSE BelowUnreachable(Tail(route_data))

\* C9: connections are the route entries with RouteCost < 255, in source order,
\* with RouteId, LinkQualityIn, LinkQualityOut and RouteCost as the entry has
\* them; cost 255 is left out, cost 254 is kept.
C9_RouteFilter ==
    \A a \in DOMAIN nodes :
        LET kept == BelowUnreachable(RouteDataOf(diagnostics_data[BuiltFrom(a)]))
            conns == nodes[a].connections
        IN  /\ Len(conns) = Len(kept)
            /\ \A k \in 1..Len(conns) :
                   /\ conns[k].cost = kept[k].RouteCost
                   /\ conns[k].cost < 255
                   /\ "RouteId" \in DOMAIN kept[k] => conns[k].router_id = kept[k].RouteId
                   /\ "LinkQualityIn" \in DOMAIN kept[k]
                          => conns[k].lq_in = kept[k].LinkQualityIn
                   /\ "LinkQualityOut" \in DOMAIN kept[k]
                          => conns[k].lq_out = kept[k].LinkQualityOut

\* a node whose record has an entry of cost 255 and whose connections hold the
\* entry of cost 254 with its link qualities
C9_Witness ==
    \E a \in DOMAIN nodes :
        /\ \E k \in 1..Len(RouteDataOf(diagnostics_data[BuiltFrom(a)])) :
               LET rd == RouteDataOf(diagnostics_data[BuiltFrom(a)])[k]
               IN  "RouteCost" \in DOMAIN rd /\ rd.RouteCost = 255
        /\ \E k \in 1..Len(nodes[a].connections) :
               /\ nodes[a].connections[k].cost = 254
               /\ nodes[a].connections[k].lq_in # nodes[a].connections[k].lq_out

----------------------------------------------------------------------------
(* Properties of the router identity resolver *)

IdentifyReturned == id_result # NoIdentity

\* C10: with is_leader the resolver returns name "SkyConnect (OTBR)",
\* manufacturer "Nabu Casa" and type border_router, for every address and router
\* index, also for an address of the prefix table or with a pattern.
C10_LeaderRule ==
    (IdentifyReturned /\ id_call.is_leader) =>
        /\ id_result.name = <<"SkyConnect (OTBR)">>
        /\ id_result.manufacturer = "Nabu Casa"
        /\ id_result.type = "border_router"

\* a leader call with a positive router index for an address whose leading
\* prefix is in the table
C10_Witness ==
    /\ IdentifyReturned
    /\ id_call.is_leader
    /\ id_call.router_index > 0
    /\ id_call.ext_address = AddrApple
    /\ OuiHit(Upper(id_call.ext_address))


\* the address of the call, uppercased
CallUpper == Upper(id_call.ext_address)

\* the leading and the trailing 3-octet prefix of an address of 6 characters or more
LeadingPrefix(up) == <<up[1], up[2], ":", up[3], up[4], ":", up[5], up[6]>>
TrailingPrefix(up) ==
    LET n == Len(up)
    IN  <<up[n - 5], up[n - 4], ":", up[n - 3], up[n - 2], ":", up[n - 1], up[n]>>

InTable(prefix) == \E e \in KNOWN_BORDER_ROUTER_OUIS : e.oui = prefix

\* the identity is the table entry of the prefix
IsTableEntry(identity, prefix) ==
    \E e \in KNOWN_BORDER_ROUTER_OUIS :
        /\ e.oui = prefix
        /\ identity.name = <<e.name>>
        /\ identity.manufacturer = e.manufacturer
        /\ identity.icon = e.icon
        /\ identity.type = "border_router"

\* the call has a hit in the prefix table
TableHit ==
    /\ Len(CallUpper) >= 6
    /\ InTable(LeadingPrefix(CallUpper)) \/ InTable(TrailingPrefix(CallUpper))

\* C11: for a non-leader address the table entry of the leading prefix is
\* returned if that prefix is in the table, else the entry of the trailing prefix
\* if that one is; patterns and the generic list are not consulted then.
C11_PrefixTable ==
    (IdentifyReturned /\ ~id_call.is_leader /\ Len(CallUpper) >= 6) =>
        /\ InTable(LeadingPrefix(CallUpper))
               => IsTableEntry(id_result, LeadingPrefix(CallUpper))
        /\ (~InTable(LeadingPrefix(CallUpper)) /\ InTable(TrailingPrefix(CallUpper)))
               => IsTableEntry(id_result, TrailingPrefix(CallUpper))

\* a non-leader call whose leading and trailing prefixes are both in the table,
\* with different entries, answered with the leading one
C11_Witness ==
    /\ IdentifyReturned
    /\ ~id_call.is_leader
    /\ id_call.ext_address = AddrBoth
    /\ InTable(LeadingPrefix(CallUpper)) /\ InTable(TrailingPrefix(CallUpper))
    /\ id_result.name = <<"Apple HomePod">>
    /\ ~IsTableEntry(id_result, TrailingPrefix(CallUpper))

\* a non-leader call answered from the trailing prefix, the leading one not
\* being in the table
C11_WitnessTrailing ==
    /\ IdentifyReturned
    /\ ~id_call.is_leader
    /\ id_call.ext_address = AddrNestTail
    /\ ~InTable(LeadingPrefix(CallUpper))
    /\ id_result.name = <<"Google Nest">>

\* the rules of the pattern list that occur in the address
Occurring(up) ==
    {k \in 1..Len(BORDER_ROUTER_PATTERNS) : Contains(up, BORDER_ROUTER_PATTERNS[k].pattern)}

\* C12: without a table hit, a non-leader address gets name and manufacturer of
\* the first rule of the pattern list whose substring occurs in the uppercased
\* address; an address containing "EA" gets Eero / Amazon/Eero, type
\* border_router, for every router index.
C12_PatternFallback ==
    (IdentifyReturned /\ ~id_call.is_leader /\ ~TableHit) =>
        /\ Occurring(CallUpper) # {} =>
               LET first == CHOOSE k \in Occurring(CallUpper) :
                                \A h \in Occurring(CallUpper) : k <= h
               IN  /\ id_result.name = <<BORDER_ROUTER_PATTERNS[first].name>>
                   /\ id_result.manufacturer = BORDER_ROUTER_PATTERNS[first].manufacturer
                   /\ id_result.type = "border_router"
        /\ Contains(CallUpper, <<"E", "A">>) =>
               /\ id_result.name = <<"Eero">>
               /\ id_result.manufacturer = "Amazon/Eero"
               /\ id_result.type = "border_router"

\* a non-leader call with a router index whose generic name is not Eero, for an
\* address in lower case that holds "ea" and has no table prefix
C12_Witness ==
    /\ IdentifyReturned
    /\ ~id_call.is_leader
    /\ ~TableHit
    /\ id_call.ext_address = AddrLowerEA
    /\ id_call.router_index = 1
    /\ id_result.name = <<"Eero">>

\* C13: with neither a table hit nor a pattern, a non-leader address gets the
\* pair at position router_index modulo 5 of the generic list, type
\* border_router; the name is the pair's name for index 0 and has " #" and
\* router_index + 1 appended for a positive index.
C13_GenericFallback ==
    (IdentifyReturned /\ ~id_call.is_leader /\ ~TableHit /\ Occurring(CallUpper) = {}) =>
        LET idx == id_call.router_index
            pair == router_names[(idx % 5) + 1]
        IN  /\ Len(router_names) = 5
            /\ id_result.manufacturer = pair.manufacturer
            /\ id_result.type = "border_router"
            /\ idx = 0 => id_result.name = <<pair.name>>
            /\ idx > 0 => id_result.name = <<pair.name, " #", idx + 1>>
            /\ idx = 0 => id_result.name = <<"Eero">>
            /\ idx = 6 => id_result.name = <<"Google Nest", " #", 7>>

\* a call past the end of the generic list: index 6 selects the second pair
C13_Witness ==
    /\ IdentifyReturned
    /\ ~id_call.is_leader
    /\ id_call.ext_address = AddrPlain
    /\ id_call.router_index = 6
    /\ id_result.name = <<"Google Nest", " #", 7>>
    /\ id_result.manufacturer = "Google"


----------------------------------------------------------------------------
(* Properties of the topology builder: missing fields and the end-to-end case *)

TopologyKeys ==
    {"network_name", "state", "leader_address", "router_count", "nodes",
     "total_devices", "matter_devices", "known_routers"}
NodeKeys ==
    {"ext_address", "rloc16", "role", "name", "manufacturer", "device_type", "icon",
     "link_quality", "leader_cost", "children", "child_count", "connections",
     "ip_addresses"}
ChildKeys == {"id", "type", "timeout", "rloc16"}
ConnectionKeys == {"router_id", "lq_out", "lq_in", "cost"}

StructurallyComplete(t) ==
    /\ DOMAIN t = TopologyKeys
    /\ DOMAIN t.matter_devices = {"thread", "wifi", "total"}
    /\ \A a \in DOMAIN t.nodes :
           /\ DOMAIN t.nodes[a] = NodeKeys
           /\ \A k \in 1..Len(t.nodes[a].children) :
                  ChildKeys \subseteq DOMAIN t.nodes[a].children[k]
           /\ \A k \in 1..Len(t.nodes[a].connections) :
                  DOMAIN t.nodes[a].connections[k] = ConnectionKeys

\* C15: whatever optional fields are missing from the summary, a record, a child
\* entry or a route entry, the builder never raises, is never stuck before the
\* end of the diagnostics list, and returns a topology with all its keys.
C15_NeverRaises ==
    /\ pc # "raised"
    /\ pc \in {"start", "loop", "done"}
    /\ pc = "loop" => diag_pos <= Len(diagnostics_data)
    /\ pc = "done" => diag_pos = Len(diagnostics_data)
    /\ Returned => StructurallyComplete(topology)

\* a topology returned for an empty summary and records that include an empty
\* object and a record with an empty child entry
C15_Witness ==
    /\ Returned
    /\ node_data = EmptyObj
    /\ \E k \in 1..Len(diagnostics_data) : diagnostics_data[k] = EmptyObj
    /\ \E k \in 1..Len(diagnostics_data) :
           \E j \in 1..Len(TableOf(diagnostics_data[k])) :
               TableOf(diagnostics_data[k])[j] = EmptyObj

\* a topology returned for an empty diagnostics list
C15_WitnessEmptyList ==
    /\ Returned
    /\ diagnostics_data = <<>>
    /\ topology.nodes = EmptyObj
    /\ topology.total_devices = 0

\* the values put in the topology for the absent fields of the summary and of
\* the records, with the given value for an absent network name
DefaultsWith(absent_network_name) ==
    Returned =>
        /\ "ExtAddress" \notin DOMAIN node_data => topology.leader_address = <<>>
        /\ "NetworkName" \notin DOMAIN node_data
               => topology.network_name = absent_network_name
        /\ "NumOfRouter" \notin DOMAIN node_data => topology.router_count = 0
        /\ "State" \notin DOMAIN node_data => topology.state = "unknown"
        /\ \A a \in DOMAIN topology.nodes :
               LET diag == diagnostics_data[BuiltFrom(a)]
                   node == topology.nodes[a]
               IN  /\ "ExtAddress" \notin DOMAIN diag => node.ext_address = <<>>
                   /\ "Rloc16" \notin DOMAIN diag => node.rloc16 = 0
                   /\ "Connectivity" \notin DOMAIN diag
                          => node.leader_cost = 0 /\ node.link_quality = 0
                   /\ ("Connectivity" \in DOMAIN diag
                           /\ "LeaderCost" \notin DOMAIN diag.Connectivity)
                          => node.leader_cost = 0
                   /\ "ChildTable" \notin DOMAIN diag
                          => node.children = <<>> /\ node.child_count = 0
                   /\ "Route" \notin DOMAIN diag => node.connections = <<>>
                   /\ ("Route" \in DOMAIN diag /\ "RouteData" \notin DOMAIN diag.Route)
                          => node.connections = <<>>
                   /\ "IP6AddressList" \notin DOMAIN diag => node.ip_addresses = <<>>

\* C16, as claimed: an absent field gets the empty string (hardware address,
\* network name), 0 (numbers), the empty list (lists) or "unknown" (state).
C16_DefaultsAsClaimed == DefaultsWith("")

\* C16, amended: as claimed, except that an absent network name gets "Unknown".
C16_Defaults == DefaultsWith("Unknown")

\* a topology returned for a summary without any field and a record without any
C16_Witness ==
    /\ Returned
    /\ node_data = EmptyObj
    /\ topology.network_name = "Unknown"
    /\ topology.state = "unknown"
    /\ <<>> \in DOMAIN topology.nodes
    /\ diagnostics_data[BuiltFrom(<<>>)] = EmptyObj

\* the end-to-end case with the leader record at position i and the other
\* record at position j: the leader record has the summary's address and no
\* child, the other record another address, DeviceType 1 and one child entry
\* with RxOnWhenIdle 0, and one paired device has transport thread
EndToEndCase(i, j) ==
    /\ Len(diagnostics_data) = 2
    /\ "ExtAddress" \in DOMAIN node_data
    /\ "ExtAddress" \in DOMAIN diagnostics_data[i]
    /\ diagnostics_data[i].ExtAddress = node_data.ExtAddress
    /\ TableOf(diagnostics_data[i]) = <<>>
    /\ "ExtAddress" \in DOMAIN diagnostics_data[j]
    /\ diagnostics_data[j].ExtAddress # node_data.ExtAddress
    /\ "Mode" \in DOMAIN diagnostics_data[j]
    /\ "DeviceType" \in DOMAIN diagnostics_data[j].Mode
    /\ diagnostics_data[j].Mode.DeviceType = 1
    /\ Len(TableOf(diagnostics_data[j])) = 1
    /\ "Mode" \in DOMAIN TableOf(diagnostics_data[j])[1]
    /\ "RxOnWhenIdle" \in DOMAIN TableOf(diagnostics_data[j])[1].Mode
    /\ TableOf(diagnostics_data[j])[1].Mode.RxOnWhenIdle = 0
    /\ Len(ThreadOnly(matter_devices)) = 1

EndToEndResult(i, j) ==
    LET x == diagnostics_data[i].ExtAddress
        y == diagnostics_data[j].ExtAddress
    IN  /\ DOMAIN topology.nodes = {x, y}
        /\ Cardinality(DOMAIN topology.nodes) = 2
        /\ topology.nodes[x].role = "leader"
        /\ topology.nodes[x].name = <<"SkyConnect (OTBR)">>
        /\ topology.nodes[y].role = "router"
        /\ Len(topology.nodes[y].children) = 1
        /\ topology.nodes[y].children[1].type = "sleepy"
        /\ "name" \in DOMAIN topology.nodes[y].children[1]
        /\ topology.nodes[y].children[1].name = ThreadOnly(matter_devices)[1].name
        /\ topology.total_devices = 3

\* C17: in the end-to-end case, in either record order, the topology has 2
\* nodes, the leader node with the leader-rule name, the other node a router
\* whose one child is sleepy and carries the paired device's name, and
\* total_devices is 3.
C17_EndToEnd ==
    Returned =>
        /\ EndToEndCase(1, 2) => EndToEndResult(1, 2)
        /\ EndToEndCase(2, 1) => EndToEndResult(2, 1)

\* the case with the router record first and a wifi device before the thread one
C17_Witness ==
    /\ Returned
    /\ EndToEndCase(2, 1)
    /\ Len(matter_devices) = 2
    /\ matter_devices[1].transport = "wifi"

\* the case with the leader record first
C17_WitnessLeaderFirst ==
    /\ Returned
    /\ EndToEndCase(1, 2)


----------------------------------------------------------------------------
(* Properties of the coordinator *)

\* the one-call form of the builder returns what its traced steps return
BuildAgrees ==
    Returned =>
        topology = _process_topology(Self, node_data, diagnostics_data, matter_devices,
                                     thread_routers)

IdentityKeys == {"name", "manufacturer", "type", "icon"}

C14_WitnessShort ==
    /\ id_again # NoIdentity
    /\ Len(id_call.ext_address) < 6
    /\ cycles > id_cycle

FetchFailures == { "ClientConnectorError", "ClientResponseError", "TimeoutError" }

CycleEnded == pc = "idle" /\ cycles > 0

\* C18: a cycle requests /node, then /diagnostics; when a fetch raises a
\* client error, a bad-status error or a timeout the cycle raises UpdateFailed,
\* no topology is built or returned and save_svg_to_www is not called; after a
\* failed /node fetch /diagnostics is not requested; and a cycle returns a
\* topology only when both endpoints were requested and neither fetch raised.
C18_FetchOrderAndFailure ==
    /\ requests \in { <<>>, <<ENDPOINT_NODE>>, <<ENDPOINT_NODE, ENDPOINT_DIAGNOSTICS>> }
    /\ (raised # <<>> /\ raised[1] \in FetchFailures) =>
           /\ cycle_result = "UpdateFailed"
           /\ topology = NoTopology
           /\ svg_path = "not_called"
           /\ ~svg_error
    /\ (raised # <<>> /\ raised[2] = ENDPOINT_NODE) => requests = <<ENDPOINT_NODE>>
    /\ topology # NoTopology =>
           /\ raised = <<>>
           /\ requests = <<ENDPOINT_NODE, ENDPOINT_DIAGNOSTICS>>
    /\ cycle_result = "returned" =>
           /\ raised = <<>>
           /\ requests = <<ENDPOINT_NODE, ENDPOINT_DIAGNOSTICS>>
           /\ topology # NoTopology

\* a cycle whose /diagnostics fetch timed out after a successful /node fetch
C18_Witness ==
    /\ CycleEnded
    /\ raised = <<"TimeoutError", ENDPOINT_DIAGNOSTICS>>
    /\ cycle_result = "UpdateFailed"

\* a cycle whose /node fetch met a non-success status
C18_WitnessNode ==
    /\ CycleEnded
    /\ raised = <<"ClientResponseError", ENDPOINT_NODE>>

\* the second cycle of a coordinator returned a topology
C18_WitnessReturned ==
    /\ CycleEnded
    /\ cycles = 2
    /\ cycle_result = "returned"

\* C19: when rendering or writing the image fails in a cycle whose two fetches
\* succeeded, save_svg_to_www returns None and the cycle returns the topology
\* it built from the two responses.
C19_SvgFailureSwallowed ==
    svg_error =>
        /\ svg_path = "None"
        /\ cycle_result = "returned"
        /\ raised = <<>>
        /\ DOMAIN topology = TopologyKeys
        /\ topology = _process_topology(Self, node_data, diagnostics_data,
                                        matter_devices, thread_routers)

\* a cycle with two records fetched in which the image could not be written
C19_Witness ==
    /\ CycleEnded
    /\ svg_error
    /\ Len(diagnostics_data) = 2
    /\ Cardinality(DOMAIN topology.nodes) = 2

\* C20, as claimed: a coordinator constructed without a scan interval has an
\* update interval of 60 seconds and no session.
C20_DefaultInterval ==
    (scan_interval = <<>> /\ cycles = 0) =>
        /\ update_interval = 60
        /\ _session = 0


----------------------------------------------------------------------------
(* Further properties of the topology builder *)

\* the positions of the devices of the list that have the given transport
WithTransport(devices, transport) ==
    {p \in 1..Len(devices) : devices[p].transport = transport}

\* sub lists the devices of the list with the given transport, in list order
IsSelection(sub, devices, transport) ==
    /\ Len(sub) = Cardinality(WithTransport(devices, transport))
    /\ \A p \in WithTransport(devices, transport) :
           sub[Cardinality({q \in WithTransport(devices, transport) : q <= p})] = devices[p]

\* the number of children, over all consumed records, that were given a device
AttachedCount ==
    Cardinality({s \in ChildSlots(Consumed) : attached[s[1]][s[2]] > 0})

\* C23: matter_devices.thread lists every paired device with transport thread
\* in input order, matter_devices.wifi every one with transport wifi in input
\* order, and matter_devices.total is the length of the paired-device list,
\* which is len(thread) + len(wifi), however many devices were attached to
\* children.
C23_InventorySummary ==
    Returned =>
        /\ IsSelection(topology.matter_devices.thread, matter_devices, "thread")
        /\ IsSelection(topology.matter_devices.wifi, matter_devices, "wifi")
        /\ topology.matter_devices.total = Len(matter_devices)
        /\ topology.matter_devices.total =
               Len(topology.matter_devices.thread) + Len(topology.matter_devices.wifi)

\* a topology with a wifi device between two thread devices, of which one
\* only was attached to a child
C23_Witness ==
    /\ Returned
    /\ Len(matter_devices) = 3
    /\ matter_devices[2].transport = "wifi"
    /\ AttachedCount = 1

\* a topology with paired devices of both transports and no child at all
C23_WitnessUnmatched ==
    /\ Returned
    /\ Len(topology.matter_devices.thread) > 0
    /\ Len(topology.matter_devices.wifi) > 0
    /\ AttachedCount = 0


\* the child entry says that the receiver is off when idle
SaysRxOff(child) ==
    /\ "Mode" \in DOMAIN child
    /\ "RxOnWhenIdle" \in DOMAIN child.Mode
    /\ child.Mode.RxOnWhenIdle = 0

FieldOrZero(obj, key) == IF key \in DOMAIN obj THEN obj[key] ELSE 0

\* C24: a child has type sleepy exactly when its entry has Mode.RxOnWhenIdle = 0
\* and type active otherwise, also when Mode or RxOnWhenIdle is missing; its
\* rloc16 is the record's Rloc16 plus the entry's ChildId (each 0 when absent).
C24_ChildTypeAndAddress ==
    \A a \in DOMAIN nodes :
        LET diag == diagnostics_data[BuiltFrom(a)]
            table == TableOf(diag)
            children == nodes[a].children
        IN  /\ Len(children) = Len(table)
            /\ \A k \in 1..Len(children) :
                   /\ children[k].type \in {"sleepy", "active"}
                   /\ children[k].type = "sleepy" <=> SaysRxOff(table[k])
                   /\ children[k].rloc16 =
                          FieldOrZero(diag, "Rloc16") + FieldOrZero(table[k], "ChildId")

\* a node with a child without RxOnWhenIdle and a child without Mode, both
\* active, and a sleepy child whose rloc16 is the record's plus its ChildId
C24_Witness ==
    /\ Returned
    /\ \E a \in DOMAIN topology.nodes :
           LET diag == diagnostics_data[BuiltFrom(a)]
               children == topology.nodes[a].children
           IN  /\ Len(children) = 3
               /\ "Mode" \in DOMAIN diag.ChildTable[1]
               /\ "RxOnWhenIdle" \notin DOMAIN diag.ChildTable[1].Mode
               /\ children[1].type = "active"
               /\ "Mode" \notin DOMAIN diag.ChildTable[2]
               /\ children[2].type = "active"
               /\ children[3].type = "sleepy"
               /\ diag.ChildTable[3].ChildId > 0
               /\ children[3].rloc16 = diag.Rloc16 + diag.ChildTable[3].ChildId


\* the router a short address belongs to: its upper 6 bits
RouterIdOf(rloc16) == rloc16 \div 1024

\* C25, as claimed: no connection of a node names the router of the node's own
\* short address as its peer.
C25_NoSelfLoop ==
    \A a \in DOMAIN nodes :
        \A k \in 1..Len(nodes[a].connections) :
            nodes[a].connections[k].router_id # RouterIdOf(nodes[a].rloc16)


\* the records before record k that are classified leader or router
RoutersBefore(k) ==
    {j \in 1..(k - 1) : ClaimedRole(diagnostics_data[j]) \in {"leader", "router"}}

\* C26: the router index passed to _identify_router for a record is the number
\* of records before it, in input order, that are classified leader or router;
\* so it is 0 for the first record and is not advanced by end_device records.
C26_RouterIndex ==
    /\ Len(resolved) = diag_pos
    /\ \A k \in Consumed :
           /\ resolved[k].router_index = Cardinality(RoutersBefore(k))
           /\ resolved[k].ext_address = ExtAddressOf(diagnostics_data[k])
    /\ pc = "loop" => router_index = Cardinality(RoutersBefore(diag_pos + 1))

\* a router record after an end_device record of another address gets index 0
C26_Witness ==
    /\ Returned
    /\ Len(diagnostics_data) = 2
    /\ ClaimedRole(diagnostics_data[1]) = "end_device"
    /\ ClaimedRole(diagnostics_data[2]) = "router"
    /\ resolved[2].router_index = 0
    /\ ExtAddressOf(diagnostics_data[1]) # ExtAddressOf(diagnostics_data[2])

\* a record after a leader and a router record gets index 2
C26_WitnessTwo ==
    /\ Returned
    /\ Len(diagnostics_data) >= 2
    /\ ClaimedRole(diagnostics_data[1]) = "leader"
    /\ ClaimedRole(diagnostics_data[2]) = "router"
    /\ router_index = 2


\* the consumed records that carry the address a
RecordsWith(a) == {k \in Consumed : ExtAddressOf(diagnostics_data[k]) = a}

\* the last of them in input order
LastWith(a) == CHOOSE k \in RecordsWith(a) : \A j \in RecordsWith(a) : j <= k

\* C27: the node map has one node per hardware address of the consumed records;
\* the node of an address has the role, the children, the child_count and the
\* connections of the last record with that address, and its ext_address field
\* is its key.
C27_LastWriteWins ==
    /\ DOMAIN nodes = {ExtAddressOf(diagnostics_data[k]) : k \in Consumed}
    /\ \A a \in DOMAIN nodes :
           LET last == diagnostics_data[LastWith(a)]
               node == nodes[a]
           IN  /\ node.ext_address = a
               /\ node.role = ClaimedRole(last)
               /\ node.rloc16 = FieldOrZero(last, "Rloc16")
               /\ Len(node.children) = Len(TableOf(last))
               /\ \A k \in 1..Len(node.children) :
                      node.children[k].id = FieldOrZero(TableOf(last)[k], "ChildId")
               /\ node.child_count = Len(TableOf(last))
               /\ Len(node.connections) = Len(BelowUnreachable(RouteDataOf(last)))
               /\ \A k \in 1..Len(node.connections) :
                      node.connections[k].cost = BelowUnreachable(RouteDataOf(last))[k].RouteCost

\* two records with one address and different roles, child tables and routes:
\* the topology has the single node of the second
C27_Witness ==
    /\ Returned
    /\ Len(diagnostics_data) = 2
    /\ ExtAddressOf(diagnostics_data[1]) = ExtAddressOf(diagnostics_data[2])
    /\ ClaimedRole(diagnostics_data[1]) # ClaimedRole(diagnostics_data[2])
    /\ Len(TableOf(diagnostics_data[1])) # Len(TableOf(diagnostics_data[2]))
    /\ Cardinality(DOMAIN topology.nodes) = 1


----------------------------------------------------------------------------
(* Further properties of the coordinator *)

\* a step in which some session is closed
ClosesSession == \E k \in 1..Len(closed) : closed'[k] # closed[k]

C22_WitnessTwice ==
    /\ _session = 0
    /\ closed = <<1, 1>>


----------------------------------------------------------------------------
(* Properties of the config entry *)

\* a refresh of a set-up entry is between its return and the framework taking
\* its outcome in
RefreshReturned == /\ phase \in {"first_refresh", "loaded"}
                   /\ pc = "idle"
                   /\ handled < cycles
                   /\ cycle_result = "returned"

C29_WitnessSecond ==
    /\ RefreshReturned
    /\ cycles = 2
    /\ data # NoTopology
    /\ DOMAIN data.nodes # {}
    /\ DOMAIN topology.nodes # {}
    /\ data.nodes # topology.nodes

\* the entry is loaded and no refresh is under way
EntrySettled == phase = "loaded" /\ pc = "idle" /\ handled = cycles

\* C28: at setup and after every later refresh, the hardware addresses that
\* have a node sensor are exactly the keys of the node map of the published
\* topology.
C28_SensorPerNode == EntrySettled => node_sensors = NodeSensors(data)

----------------------------------------------------------------------------
(* Properties of the config flow *)

Submitted == flow_input # NoInput
Answers200 == flow_input.response.outcome = "response" /\ flow_input.response.status = 200
SubmittedUrl == Get(flow_input.user_input, CONF_URL, DEFAULT_OTBR_URL)

\* the four outcomes of a submission
IsEntry(r, name, url) == /\ r.type = "create_entry"
                         /\ r.title = <<"Thread: ", name>>
                         /\ r.data = [otbr_url |-> url]
IsAbort(r) == r.type = "abort" /\ r.reason = "already_configured"
IsFormError(r, error) == r.type = "form" /\ r.errors = [base |-> error]
ListedOutcome(r) ==
    \/ r.type = "create_entry"
    \/ IsAbort(r)
    \/ IsFormError(r, "cannot_connect")
    \/ IsFormError(r, "timeout")

\* the network name a 200 answer reports
ReportedName == Get(flow_input.response.body.value, "NetworkName", "Thread Network")

\* no two config entries share a network name
NoSharedName ==
    \A i, j \in 1..Len(entries) : entries[i].unique_id = entries[j].unique_id => i = j

\* C21: every submission of the setup form ends in one of four outcomes: an
\* entry titled "Thread: <NetworkName>" with the submitted URL on a 200 answer
\* whose name is not configured, abort already_configured on a 200 answer whose
\* name is configured, the form with cannot_connect on another status or a
\* client error, the form with timeout on a timeout; and no two entries share
\* a network name.
C21_OneOutcome ==
    /\ NoSharedName
    /\ Submitted =>
         /\ ListedOutcome(flow_result)
         /\ flow_result.type = "create_entry" <=>
                (Answers200 /\ ReportedName \notin flow_input.configured)
         /\ (Answers200 /\ ReportedName \notin flow_input.configured) =>
                IsEntry(flow_result, ReportedName, SubmittedUrl)
         /\ (Answers200 /\ ReportedName \in flow_input.configured) => IsAbort(flow_result)
         /\ (flow_input.response.outcome = "response" /\ ~Answers200) =>
                IsFormError(flow_result, "cannot_connect")
         /\ flow_input.response.outcome \in ClientErrors =>
                IsFormError(flow_result, "cannot_connect")
         /\ flow_input.response.outcome = "TimeoutError" => IsFormError(flow_result, "timeout")

\* a 200 answer carries a JSON object
ObjectBody == Answers200 => flow_input.response.body.kind = "object"

\* the four outcomes are as listed whenever a 200 answer carries a JSON object
OutcomeForObjectBody == (Submitted /\ ObjectBody) => C21_OneOutcome

====
